---- MODULE Spec2Model ----
(***************************************************************************)
(* A model of the DRAM-cache memory controller of zsim (TELOS-syslab):     *)
(* MemoryController::access / mapPage (src/src/mc.cpp) driving one of the  *)
(* cache schemes of src/src/cache (Alloy, Unison, Banshee with its Tag     *)
(* Buffer, NDC, CHAMO, IdealBalanced, IdealFully, IdealHotness, CacheOnly).*)
(*                                                                         *)
(* A handler (one controller access, with the scheme access and every      *)
(* period() it triggers) is one action.  The handlers are written as       *)
(* operators over a record `s' holding the scheme's fields, the request's  *)
(* mutable cycle, the list of DRAM-device calls issued so far and an abort *)
(* flag (a failed assert/panic ends the process).                          *)
(*                                                                         *)
(* The tag array `cache' is kept as a function over the sets that differ   *)
(* from their constructed value; every other set reads as InitSet.         *)
(***************************************************************************)
EXTENDS Integers, Sequences, FiniteSets, TLC

(***************************************************************************)
(* Bounds and configuration of the modelled machine.                       *)
(***************************************************************************)
NumSets == 1000          \* sets of Alloy / Unison / Banshee (index_step = NumSets / 1000)
StepLength == 2          \* accesses between two rebalances (_step_length)
MaxRequests == 3         \* controller requests explored by Spec
MaxLongRequests == 120   \* controller requests explored by SpecLong
LlcLatency == 1          \* sys.caches.l3.latency
MaxLat == 1              \* a DRAM device answers at cycle + 0..MaxLat
IndexDivisor == 1000     \* index_step = _num_sets / 1000
TargetPct == 80          \* target_ratio = 0.8
DeadbandPct == 2         \* deadband 0.02
McdramPerMc == 1         \* sys.mem.mcdram.mcdramPerMC
TBNumWays == 8           \* TagBuffer::_num_ways
TBNumSets == 2           \* TagBuffer::_num_sets = tag_buffer_size / 8
OccupancyTenths == 7     \* getOccupancy() > 0.7
NdcWays == 2             \* sys.mem.mcdram.num_ways of the NDC configuration
NdcSets == 4             \* its number of sets
CoPos == 0               \* sys.mem.mcdram.co_pos
NumShiftBits == 6        \* _num_shift_bits
IdealWays == 2           \* num_ways of the IdealBalanced configuration
FullyWays == 3           \* num_ways of the IdealFully configuration
HotNumPages == 2         \* IdealHotness _num_pages
HotLinesPerPage == 2     \* IdealHotness _lines_per_page
MigrationPeriod == 2     \* MIGRATION_PERIOD
\* the saturation point of a page frequency: UINT32_MAX is 4294967295, TLC
\* integers end at 2147483647, and no run counts anywhere near either
UInt32Max == 2147483647
ChamoDramLines == 4      \* CHAMO nr_dram_cache_ = cache_size / 64
ChamoRatio == 4          \* CHAMO dram_ratio_ = ext lines / cache lines
LoadRatio == 95          \* CHAMO load_ratio_
MapLineBits == 2          \* _ext_bits - 6 of the page-mapper runs
TBMaxTag == 3            \* tags 0..TBMaxTag reach the tag buffer of SpecTB
FootprintSize == 4       \* sys.mem.mcdram.footprint_size (lines)
PageLines == 64          \* lines of a page: 1 << (_page_bits - 6), _page_bits = 12

\* the `wb' field of a device call that writes no victim back
NoTag == 0 - 1
\* the threads that call access() on one controller
NumThreads == 2
Threads == 1..NumThreads
NoReq == [lineAddr |-> 0, type |-> "none", cycle |-> 0, noexcl |-> FALSE]
\* a thread that is not inside access()
Idle == [pc |-> "idle", req |-> NoReq, snap |-> <<>>, ret |-> 0]

Schemes == {"AlloyCache", "UnisonCache", "BansheeCache", "NDC", "CHAMO",
            "IdealBalanced", "IdealFully", "IdealHotness", "CacheOnly"}

ReqTypes == {"GETS", "GETX", "PUTS", "PUTX"}

VARIABLES
    \* configuration, fixed by the constructors
    scheme, bw_balance, sram_tag, page_map_scheme, ext_line_bits, collect_trace,
    \* MemoryController
    mc_num_requests, mc_tlb, exist_pgnum, johnny_ptr, status,
    \* CacheScheme (common part)
    cache, ds_index, num_requests, tlb, tag_buffer, entry_occupied,
    line_entries, current_way, lru_array, mru_way, lru_way,
    page_table, page_location, period_counter, chamo,
    num_hit_per_step, num_miss_per_step, mc_bw_per_step, ext_bw_per_step,
    numLoadHit, numLoadMiss, numStoreHit, numStoreMiss,
    \* what the last handler returned and did
    last_req, resp, req_state, calls, periods, stored, evicted,
    \* per set: the line last accessed, and the line last accessed while the set
    \* was cached, since the set was last flushed (history, Alloy)
    set_hist,
    \* the halved bandwidth counters the last handler's period() compared
    \* (history)
    bw_at_period,
    \* the two tags of the last eviction's tag buffer update and whether it had
    \* to clear the tag buffer first (history, Banshee)
    tb_evict,
    \* the controller's lock word and the threads that are inside access()
    lock, thr,
    \* the hash objects on their own: a CHAMO map limit computation with its
    \* geometry, an LCGHash, and a CuckooHash
    map_limit, lcg, cuckoo_hash

cfgVars == <<scheme, bw_balance, sram_tag, page_map_scheme, ext_line_bits, collect_trace>>
mcVars == <<mc_num_requests, mc_tlb, exist_pgnum, johnny_ptr, status>>
schVars == <<cache, ds_index, num_requests, tlb, tag_buffer, entry_occupied,
             line_entries, current_way, lru_array, mru_way, lru_way,
             page_table, page_location, period_counter, chamo,
             num_hit_per_step, num_miss_per_step,
             mc_bw_per_step, ext_bw_per_step,
             numLoadHit, numLoadMiss, numStoreHit, numStoreMiss>>
obsVars == <<last_req, resp, req_state, calls, periods, stored, evicted, set_hist,
             bw_at_period, tb_evict>>
conVars == <<lock, thr>>
hashVars == <<map_limit, lcg, cuckoo_hash>>
vars == <<cfgVars, mcVars, schVars, obsVars, conVars, hashVars>>

(***************************************************************************)
(* Geometry of each scheme (CacheScheme::CacheScheme).                      *)
(***************************************************************************)
NumWaysOf(sch) ==
    CASE sch = "AlloyCache" -> 1
      [] sch = "UnisonCache" -> 2
      [] sch = "BansheeCache" -> 2
      [] sch = "NDC" -> NdcWays
      [] sch = "IdealBalanced" -> IdealWays
      [] sch = "IdealFully" -> FullyWays
      [] OTHER -> 1

NumSetsOf(sch) ==
    CASE sch \in {"AlloyCache", "UnisonCache", "BansheeCache"} -> NumSets
      [] sch = "NDC" -> NdcSets
      [] sch = "CHAMO" -> ChamoDramLines
      [] OTHER -> 1

GranularityOf(sch) ==
    CASE sch \in {"UnisonCache", "BansheeCache"} -> 4096
      [] OTHER -> 64

num_ways == NumWaysOf(scheme)
num_sets == NumSetsOf(scheme)
granularity == GranularityOf(scheme)
step_length == StepLength

(***************************************************************************)
(* Tag array.                                                              *)
(***************************************************************************)
InitWay == [tag |-> 0, valid |-> FALSE, dirty |-> FALSE]
InitSet == [w \in 0..(num_ways - 1) |-> InitWay]

GetSet(c, set) == IF set \in DOMAIN c THEN c[set] ELSE InitSet
GetWay(c, set, way) == GetSet(c, set)[way]

PutWay(c, set, way, v) ==
    LET ns == [GetSet(c, set) EXCEPT ![way] = v]
        dom == IF ns = InitSet THEN DOMAIN c \ {set} ELSE DOMAIN c \cup {set}
    IN [x \in dom |-> IF x = set THEN ns ELSE c[x]]

Min(a, b) == IF a < b THEN a ELSE b
Max(a, b) == IF a > b THEN a ELSE b

Pow2(n) == 2 ^ n

IsLoad(type) == type \in {"GETS", "GETX"}

\* _tlb[tag] = entry
TlbPut(tlbmap, tag, entry) ==
    [x \in DOMAIN tlbmap \cup {tag} |-> IF x = tag THEN entry ELSE tlbmap[x]]

\* TLBEntry{tag, _num_ways, 0, 0, 0}
NewTLBEntry(tag) ==
    [tag |-> tag, way |-> num_ways, count |-> 0, touch_bitvec |-> {}, dirty_bitvec |-> {}]

\* the entry operator[] creates for a tag the map does not hold
ZeroTLBEntry ==
    [tag |-> 0, way |-> 0, count |-> 0, touch_bitvec |-> {}, dirty_bitvec |-> {}]

(***************************************************************************)
(* DRAM devices (external collaborators): a call is logged and answers no  *)
(* earlier than the cycle of the request handed to it.                     *)
(***************************************************************************)
Dev(s, dev, type, mode, bursts, wb) ==
    [s EXCEPT !.calls = Append(@, [dev |-> dev, type |-> type, mode |-> mode,
                                   bursts |-> bursts, wb |-> wb])]
DevRet(s, cyc) == cyc + s.lat

\* a device access whose answer becomes req.cycle
DevC(s, dev, type, mode, bursts, wb) ==
    [Dev(s, dev, type, mode, bursts, wb) EXCEPT !.cycle = DevRet(s, s.cycle)]

\* _mc_bw_per_step += n
McBw(s, n) == [s EXCEPT !.mc_bw_per_step = @ + n]

\* _ext_bw_per_step += n
ExtBw(s, n) == [s EXCEPT !.ext_bw_per_step = @ + n]

\* data_ready_cycle = req.cycle
Ready(s) == [s EXCEPT !.ret = s.cycle]

\* a failed assert: the process aborts
Fail(s) == [s EXCEPT !.abort = TRUE]

(***************************************************************************)
(* TagBuffer (Banshee): `tag_buffer' is _tag_buffer[set][way], and         *)
(* `entry_occupied' is _entry_occupied.                                    *)
(***************************************************************************)
TBWays == 0..(TBNumWays - 1)
TBSets == 0..(TBNumSets - 1)

\* TagBuffer::TagBuffer and TagBuffer::clearTagBuffer leave every entry so
InitTagBuffer == [i \in TBSets |-> [j \in TBWays |-> [tag |-> 0, remap |-> FALSE, lru |-> j]]]

\* the count canInsert() compares with _entry_occupied
RemapCount(buf) ==
    Cardinality({ij \in TBSets \X TBWays : buf[ij[1]][ij[2]].remap})

\* TagBuffer::existInTB: the first way holding the tag, else _num_ways
existInTB(s, tag) ==
    LET set_num == tag % TBNumSets
        found == {i \in TBWays : s.tag_buffer[set_num][i].tag = tag}
    IN IF found = {} THEN TBNumWays
       ELSE CHOOSE i \in found : \A j \in found : i <= j

\* the assert at the head of TagBuffer::canInsert(tag)
CanInsertAssert(s) ==
    IF RemapCount(s.tag_buffer) = s.entry_occupied THEN s ELSE [s EXCEPT !.abort = TRUE]

\* TagBuffer::canInsert(tag), its result
canInsert(s, tag) ==
    LET set_num == tag % TBNumSets
    IN \E i \in TBWays :
          ~s.tag_buffer[set_num][i].remap \/ s.tag_buffer[set_num][i].tag = tag

\* TagBuffer::canInsert(tag1, tag2), its result
canInsert2(s, tag1, tag2) ==
    LET set_num1 == tag1 % TBNumSets
        set_num2 == tag2 % TBNumSets
    IN IF set_num1 # set_num2
       THEN canInsert(s, tag1) /\ canInsert(s, tag2)
       ELSE Cardinality({i \in TBWays :
                ~s.tag_buffer[set_num1][i].remap
                \/ s.tag_buffer[set_num1][i].tag = tag1
                \/ s.tag_buffer[set_num1][i].tag = tag2}) >= 2

\* the assert of canInsert(tag1, tag2): it runs only when the sets differ
CanInsert2Assert(s, tag1, tag2) ==
    IF tag1 % TBNumSets # tag2 % TBNumSets THEN CanInsertAssert(s) ELSE s

\* TagBuffer::updateLRU
updateLRU(s, set_num, way) ==
    LET row == s.tag_buffer[set_num]
    IN IF row[way].remap THEN [s EXCEPT !.abort = TRUE]
       ELSE [s EXCEPT !.tag_buffer[set_num] =
                [i \in TBWays |->
                    IF i = way THEN [row[i] EXCEPT !.lru = 0]
                    ELSE IF ~row[i].remap /\ row[i].lru < row[way].lru
                         THEN [row[i] EXCEPT !.lru = @ + 1]
                         ELSE row[i]]]

\* the way TagBuffer::insert replaces: of the entries that are not remaps the
\* one of highest lru rank (the last such in way order), _num_ways if none
ReplaceWay(row) ==
    LET cand == {i \in TBWays : ~row[i].remap}
        max_lru == CHOOSE m \in {row[i].lru : i \in cand} : \A i \in cand : row[i].lru <= m
        top == {i \in cand : row[i].lru = max_lru}
    IN IF cand = {} THEN TBNumWays
       ELSE CHOOSE i \in top : \A j \in top : j <= i

\* TagBuffer::insert counting an entry again when a tag that is already a
\* remap entry is inserted as a remap: C10 does not survive it
insertCountingTwice(s, tag, remap) ==
    LET set_num == tag % TBNumSets
        row == s.tag_buffer[set_num]
        dup == \E i \in TBWays : \E j \in TBWays :
                  i < j /\ row[i].tag = row[j].tag /\ row[i].tag # 0
        Existing(exist_way) ==
            IF remap
            THEN [s EXCEPT !.entry_occupied = @ + 1,
                           !.tag_buffer[set_num][exist_way].remap = TRUE]
            ELSE IF ~row[exist_way].remap THEN updateLRU(s, set_num, exist_way)
            ELSE s
        Placed(replace_way) ==
            [s EXCEPT !.tag_buffer[set_num][replace_way] =
                          [@ EXCEPT !.tag = tag, !.remap = remap],
                      !.entry_occupied = IF remap THEN @ + 1 ELSE @]
        Replace(replace_way) ==
            IF replace_way = TBNumWays THEN Fail(s)
            ELSE IF ~remap THEN updateLRU(Placed(replace_way), set_num, replace_way)
            ELSE Placed(replace_way)
    IN IF dup THEN Fail(s)
       ELSE IF existInTB(s, tag) < TBNumWays THEN Existing(existInTB(s, tag))
       ELSE Replace(ReplaceWay(row))

\* TagBuffer::insert
insert(s, tag, remap) ==
    LET set_num == tag % TBNumSets
        row == s.tag_buffer[set_num]
        dup == \E i \in TBWays : \E j \in TBWays :
                  i < j /\ row[i].tag = row[j].tag /\ row[i].tag # 0
        Existing(exist_way) ==
            IF remap
            THEN [s EXCEPT !.entry_occupied = IF row[exist_way].remap THEN @ ELSE @ + 1,
                           !.tag_buffer[set_num][exist_way].remap = TRUE]
            ELSE IF ~row[exist_way].remap THEN updateLRU(s, set_num, exist_way)
            ELSE s
        Placed(replace_way) ==
            [s EXCEPT !.tag_buffer[set_num][replace_way] =
                          [@ EXCEPT !.tag = tag, !.remap = remap],
                      !.entry_occupied = IF remap THEN @ + 1 ELSE @]
        Replace(replace_way) ==
            IF replace_way = TBNumWays THEN Fail(s)
            ELSE IF ~remap THEN updateLRU(Placed(replace_way), set_num, replace_way)
            ELSE Placed(replace_way)
    IN IF dup THEN Fail(s)
       ELSE IF existInTB(s, tag) < TBNumWays THEN Existing(existInTB(s, tag))
       ELSE Replace(ReplaceWay(row))

\* a clear that resets the count and keeps the entries: C27 does not
\* survive it
clearTagBufferCountOnly(s) == [s EXCEPT !.entry_occupied = 0]

\* TagBuffer::clearTagBuffer
clearTagBuffer(s) ==
    [s EXCEPT !.entry_occupied = 0, !.tag_buffer = InitTagBuffer]

\* TagBuffer::getOccupancy() > 0.7, in tenths
OccupancyHigh(s) == 10 * s.entry_occupied > OccupancyTenths * TBNumWays * TBNumSets

(***************************************************************************)
(* period(): the bandwidth-balance step.                                   *)
(***************************************************************************)
TruncDiv(a, b) == IF a >= 0 THEN a \div b ELSE -((-a) \div b)

\* IEEE-754 double evaluation of (ratio - 0.8) / 0.01 at a ratio of exactly
\* p percent differs from p - 80 by this much after truncation.
DoubleSlack(p) ==
    IF p = 82 THEN -2
    ELSE IF (p >= 83 /\ p <= 91) \/ (p >= 94 /\ p <= 100) THEN -1
    ELSE 0

\* a delta_index without the deadband test: C26 does not survive it
DeltaIndexNoDeadband(mc, ext) ==
    TruncDiv((num_sets \div IndexDivisor) * (100 * mc - TargetPct * (mc + ext)), mc + ext)

\* delta_index of period() for index_step = 1 (num_sets in 1000..1999):
\* ratio = 1.0 * mc / (mc + ext); 0 inside the open deadband, else
\* (int64_t)(index_step * (ratio - 0.8) / 0.01).
DeltaIndex(mc, ext) ==
    LET tot == mc + ext
        index_step == num_sets \div IndexDivisor
        num == 100 * mc - TargetPct * tot
    IN IF (100 * mc) % tot = 0
       THEN LET p == (100 * mc) \div tot
            IN IF p > TargetPct - DeadbandPct /\ p < TargetPct + DeadbandPct
               THEN 0
               ELSE index_step * (p - TargetPct + DoubleSlack(p))
       ELSE IF num > -DeadbandPct * tot /\ num < DeadbandPct * tot
            THEN 0
            ELSE TruncDiv(index_step * num, tot)

\* a rebalance that leaves the evicted page's TLB way as it was: C22 does
\* not survive it
FlushRemapKeepingWay(s, meta) ==
    LET Room(x) ==
            IF x.abort THEN x
            ELSE IF ~canInsert(x, meta.tag) THEN clearTagBuffer(x) ELSE x
        Remap(x) ==
            IF x.abort THEN x
            ELSE IF ~canInsert(x, meta.tag) THEN Fail(x)
            ELSE insert(x, meta.tag, TRUE)
    IN Remap(CanInsertAssert(Room(CanInsertAssert(s))))

\* the Banshee-only part of the flush loop: drop the page from the TLB and
\* record the remap in the tag buffer (clearing it first when it is full)
FlushRemap(s, meta) ==
    LET Unmap(x) ==
            [x EXCEPT !.tlb = TlbPut(@, meta.tag,
                [(IF meta.tag \in DOMAIN x.tlb THEN x.tlb[meta.tag] ELSE ZeroTLBEntry)
                    EXCEPT !.way = num_ways])]
        Room(x) ==
            IF x.abort THEN x
            ELSE IF ~canInsert(x, meta.tag) THEN clearTagBuffer(x) ELSE x
        Remap(x) ==
            IF x.abort THEN x
            ELSE IF ~canInsert(x, meta.tag) THEN Fail(x)
            ELSE insert(x, meta.tag, TRUE)
    IN Remap(CanInsertAssert(Room(CanInsertAssert(Unmap(s)))))

\* a flush loop that writes a dirty way back and leaves it valid: C25 does
\* not survive it
FlushWayWriteBackOnly(s, set, way, banshee) ==
    LET meta == GetWay(s.cache, set, way)
        bursts == (granularity \div 64) * 4
    IN IF meta.valid /\ meta.dirty
       THEN McBw(ExtBw(Dev(Dev(s, "mc", "GETS", 2, bursts, NoTag),
                           "ext", "PUTX", 2, bursts, meta.tag), bursts), bursts)
       ELSE s

\* one way of the flush loop: write a dirty way back, then invalidate it
FlushWay(s, set, way, banshee) ==
    LET meta == GetWay(s.cache, set, way)
        bursts == (granularity \div 64) * 4
        WriteBack(x) ==
            IF meta.valid /\ meta.dirty
            THEN McBw(ExtBw(Dev(Dev(x, "mc", "GETS", 2, bursts, NoTag),
                                "ext", "PUTX", 2, bursts, meta.tag), bursts), bursts)
            ELSE x
        Remap(x) == IF banshee /\ meta.valid THEN FlushRemap(x, meta) ELSE x
        Invalidate(x) ==
            [x EXCEPT !.cache = PutWay(@, set, way,
                                  [meta EXCEPT !.valid = FALSE, !.dirty = FALSE])]
    IN Invalidate(Remap(WriteBack(s)))

\* for (way = 0; way < _num_ways; way++) of the flush loop
RECURSIVE FlushWays(_, _, _, _)
FlushWays(s, set, way, banshee) ==
    IF way >= num_ways \/ s.abort THEN s
    ELSE FlushWays(FlushWay(s, set, way, banshee), set, way + 1, banshee)

\* for (set = _ds_index; set < _ds_index + delta_index; set++) with its break.
RECURSIVE FlushSets(_, _, _, _)
FlushSets(s, set, hi, banshee) ==
    IF set >= hi \/ set >= num_sets \/ s.abort THEN s
    ELSE FlushSets(FlushWays(s, set, 0, banshee), set + 1, hi, banshee)

\* for (mc = 0; mc < _mcdram_per_mc; mc++)
RECURSIVE FlushMc(_, _, _, _)
FlushMc(s, mc, delta, banshee) ==
    IF mc >= McdramPerMc THEN s
    ELSE FlushMc(FlushSets(s, s.ds_index, s.ds_index + delta, banshee), mc + 1, delta, banshee)

\* no period() has compared the bandwidth counters
NoBw == [mc |-> -1, ext |-> -1]

Halve(s) ==
    [s EXCEPT !.num_hit_per_step = @ \div 2, !.num_miss_per_step = @ \div 2,
              !.mc_bw_per_step = @ \div 2, !.ext_bw_per_step = @ \div 2,
              !.bw_at_period = [mc |-> s.mc_bw_per_step \div 2,
                                ext |-> s.ext_bw_per_step \div 2]]

\* the flush of the sets given up and the move of _ds_index by delta_index
MoveDsIndex(s, delta_index, banshee) ==
    [(IF delta_index > 0 THEN FlushMc(s, 0, delta_index, banshee) ELSE s)
        EXCEPT !.ds_index = IF s.ds_index + delta_index <= 0 THEN 0
                            ELSE s.ds_index + delta_index]

\* the rebalance without its _bw_balance test: C7 does not survive it
RebalanceAlways(s, banshee) ==
    IF s.mc_bw_per_step + s.ext_bw_per_step > 0
    THEN MoveDsIndex(s, DeltaIndex(s.mc_bw_per_step, s.ext_bw_per_step), banshee)
    ELSE s

\* if (_bw_balance && _mc_bw_per_step + _ext_bw_per_step > 0) { ... }
Rebalance(s, banshee) ==
    IF bw_balance /\ s.mc_bw_per_step + s.ext_bw_per_step > 0
    THEN MoveDsIndex(s, DeltaIndex(s.mc_bw_per_step, s.ext_bw_per_step), banshee)
    ELSE s

AlloyPeriod(s) == Rebalance(Halve([s EXCEPT !.periods = @ + 1]), FALSE)

(***************************************************************************)
(* Placement policies (their code is not part of the sources at hand).     *)
(***************************************************************************)
\* LinePlacementPolicy::handleCacheMiss: a miss always replaces way 0.
\* a line placement that never places: C24 does not survive it
LineHandleCacheMissNever(way) == FALSE
LineHandleCacheMiss(way) == TRUE

\* an Alloy that never bypasses: C23 does not survive it
AlloyInCacheAlways(s, set_num) == TRUE
\* set_num >= _ds_index: the set is in the part of MC-DRAM used as a cache
AlloyInCache(s, set_num) == set_num >= s.ds_index

(***************************************************************************)
(* AlloyCacheScheme::access                                                *)
(***************************************************************************)
AlloyAccess(s0, req) ==
    LET type == IF IsLoad(req.type) THEN "LOAD" ELSE "STORE"
        address == req.lineAddr
        tag == address \div (granularity \div 64)
        set_num == tag % num_sets
        w0 == GetWay(s0.cache, set_num, 0)
        inCache == AlloyInCache(s0, set_num)
        hit_way == IF w0.valid /\ w0.tag = tag /\ inCache THEN 0 ELSE num_ways
        place == IF inCache THEN LineHandleCacheMiss(w0) ELSE FALSE
        replace_way == IF place THEN 0 ELSE 1
        size == IF sram_tag THEN 4 ELSE 6
        \* tag access for loads
        TagAccess(s) ==
            IF type = "LOAD" /\ inCache
            THEN IF sram_tag THEN [s EXCEPT !.cycle = @ + LlcLatency]
                 ELSE McBw(DevC(s, "mc", req.type, 0, 6, NoTag), 6)
            ELSE s
        \* cache hit
        HitLoad(s) ==
            IF type = "LOAD" /\ sram_tag
            THEN McBw(DevC(s, "mc", "GETX", 0, 4, NoTag), 4)
            ELSE s
        HitStore(s) ==
            IF type = "STORE"
            THEN [McBw(DevC(s, "mc", "PUTX", 0, 4, NoTag), 4)
                     EXCEPT !.cache = PutWay(@, set_num, 0, [w0 EXCEPT !.dirty = TRUE]),
                            !.numStoreHit = @ + 1]
            ELSE [s EXCEPT !.numLoadHit = @ + 1]
        Hit(s) == Ready(HitStore(HitLoad([s EXCEPT !.num_hit_per_step = @ + 1])))
        \* cache miss
        Count(s) ==
            [s EXCEPT !.num_miss_per_step = @ + 1,
                      !.numLoadMiss = IF type = "LOAD" THEN @ + 1 ELSE @,
                      !.numStoreMiss = IF type = "STORE" THEN @ + 1 ELSE @]
        Fetch(s) ==
            IF type = "LOAD"
            THEN DevC(s, "ext", req.type, IF ~sram_tag /\ inCache THEN 1 ELSE 0, 4, NoTag)
            ELSE IF replace_way >= num_ways
                 THEN DevC(s, "ext", req.type, 0, 4, NoTag)
                 ELSE DevC(s, "ext", "GETS", 0, 4, NoTag)
        TagWrite(s) == McBw(Dev(s, "mc", "PUTX", 2, size, NoTag), size)
        VictimRead(s) ==
            IF type = "STORE" /\ sram_tag
            THEN McBw(DevC(s, "mc", "GETS", 2, 4, NoTag), 4)
            ELSE s
        WriteBack(s) ==
            IF w0.valid /\ w0.dirty
            THEN ExtBw(Dev(VictimRead(s), "ext", "PUTX", 2, 4, w0.tag), 4)
            ELSE s
        Install(s) ==
            [s EXCEPT !.cache = PutWay(@, set_num, 0,
                          [valid |-> TRUE, tag |-> tag, dirty |-> (req.type = "PUTX")])]
        Replace(s) == IF replace_way < num_ways THEN Install(WriteBack(TagWrite(s))) ELSE s
        Miss(s) == Replace(Ready(ExtBw(Fetch(Count(s)), 4)))
    IN IF hit_way # num_ways THEN Hit(TagAccess(s0)) ELSE Miss(TagAccess(s0))

(***************************************************************************)
(* PagePlacementPolicy (code not part of the sources at hand): a hit may   *)
(* touch the counter structure; a miss names the way to replace, or        *)
(* num_ways for no replacement, and may touch the counters.  The choice is *)
(* an input `pol' = [way, counter] of the handler.                         *)
(***************************************************************************)
PolicyChoices == [way : 0..num_ways, counter : BOOLEAN, rand : {0}]
PageHandleCacheHit(pol) == pol.counter
PageHandleCacheMiss(pol) == pol.way

\* if (counter_access && !_sram_tag) { two 2-burst MC-DRAM accesses }
CounterAccess(s, counter_access) ==
    IF counter_access /\ ~sram_tag
    THEN [Dev(Dev(s, "mc", "GETS", 2, 2, NoTag), "mc", "PUTX", 2, 2, NoTag)
             EXCEPT !.mc_bw_per_step = @ + 4]
    ELSE s

\* the residency asserts shared by Unison and Banshee
TlbConsistent(s, tag, set_num) ==
    IF s.tlb[tag].way # num_ways
    THEN LET w == GetWay(s.cache, set_num, s.tlb[tag].way)
         IN w.valid /\ w.tag = tag
    ELSE \A i \in 0..(num_ways - 1) :
            LET w == GetWay(s.cache, set_num, i) IN w.tag # tag \/ ~w.valid

\* if (_tlb.find(tag) == _tlb.end()) _tlb[tag] = TLBEntry{tag, _num_ways, 0, 0, 0}
TlbLookup(s, tag) ==
    IF tag \in DOMAIN s.tlb THEN s
    ELSE [s EXCEPT !.tlb = TlbPut(@, tag, NewTLBEntry(tag))]

(***************************************************************************)
(* UnisonCacheScheme::access                                               *)
(***************************************************************************)
UnisonAccess(sIn, req, pol) ==
    LET type == IF IsLoad(req.type) THEN "LOAD" ELSE "STORE"
        address == req.lineAddr % Pow2(ext_line_bits)
        tag == address \div (granularity \div 64)
        set_num == tag % num_sets
        bitnum == (address - tag * 64) \div 4
        replace_way == PageHandleCacheMiss(pol)
        \* tag and data access
        TagAccess(s) ==
            IF type = "LOAD"
            THEN McBw(DevC(s, "mc", req.type, 0, 6, NoTag), 6)
            ELSE McBw(DevC(s, "mc", "GETS", 0, 2, NoTag), 2)
        \* cache hit
        HitData(s) ==
            IF type = "STORE"
            THEN [McBw(DevC(s, "mc", "PUTX", 1, 4, NoTag), 4) EXCEPT !.numStoreHit = @ + 1]
            ELSE [s EXCEPT !.numLoadHit = @ + 1]
        HitLru(s) == McBw(Dev(Ready(s), "mc", "PUTX", 2, 2, NoTag), 2)
        HitFootprint(s) ==
            IF bitnum >= 16 THEN Fail(s)
            ELSE [s EXCEPT !.tlb[tag].touch_bitvec = @ \cup {bitnum},
                           !.tlb[tag].dirty_bitvec =
                               IF type = "STORE" THEN @ \cup {bitnum} ELSE @]
        Hit(s) ==
            CounterAccess(
                HitFootprint(HitLru(HitData([s EXCEPT !.num_hit_per_step = @ + 1]))),
                PageHandleCacheHit(pol))
        \* cache miss
        Count(s) ==
            [s EXCEPT !.num_miss_per_step = @ + 1,
                      !.numLoadMiss = IF type = "LOAD" THEN @ + 1 ELSE @,
                      !.numStoreMiss = IF type = "STORE" THEN @ + 1 ELSE @]
        Fetch(s) ==
            IF type = "LOAD" \/ replace_way >= num_ways
            THEN ExtBw(DevC(s, "ext", req.type, 1, 4, NoTag), 4)
            ELSE s
        \* eviction of the page of replaced_tag; _tlb[replaced_tag]
        \* default-constructs a missing entry: all fields 0
        EvictPage(s, replaced_tag) ==
            LET old == IF replaced_tag \in DOMAIN s.tlb THEN s.tlb[replaced_tag]
                       ELSE ZeroTLBEntry
                dirty_lines == Cardinality(old.dirty_bitvec) * 4
                touch_lines == Cardinality(old.touch_bitvec) * 4
                Unmap(x) ==
                    [x EXCEPT !.tlb = TlbPut(@, replaced_tag, [old EXCEPT !.way = num_ways])]
                WriteBack(x) ==
                    IF dirty_lines > 0
                    THEN ExtBw(McBw(Dev(Dev(x, "mc", "GETS", 2, dirty_lines * 4, NoTag),
                                        "ext", "PUTX", 2, dirty_lines * 4, replaced_tag),
                                    dirty_lines * 4), dirty_lines * 4)
                    ELSE x
            IN IF ~(touch_lines > 0 /\ touch_lines <= 64 /\ dirty_lines <= 64)
               THEN Fail(s)
               ELSE WriteBack(Unmap(s))
        Evict(s) ==
            LET victim == GetWay(s.cache, set_num, replace_way)
            IN IF victim.valid THEN EvictPage(s, victim.tag) ELSE s
        FillData(s) ==
            Dev(Dev(s, "ext", "GETS", 2, FootprintSize * 4, NoTag),
                "mc", "PUTX", 2, FootprintSize * 4, NoTag)
        FillTag(s) ==
            IF ~sram_tag THEN McBw(Dev(s, "mc", "PUTX", 2, 2, NoTag), 2) ELSE s
        FillBw(s) == McBw(ExtBw(s, FootprintSize * 4), FootprintSize * 4)
        Install(s) ==
            IF bitnum >= 16 THEN Fail(s)
            ELSE [s EXCEPT !.cache = PutWay(@, set_num, replace_way,
                               [valid |-> TRUE, tag |-> tag, dirty |-> (type = "STORE")]),
                           !.tlb[tag].way = replace_way,
                           !.tlb[tag].touch_bitvec = {bitnum},
                           !.tlb[tag].dirty_bitvec = IF type = "STORE" THEN {bitnum} ELSE {}]
        Fill(s) == IF s.abort THEN s ELSE Install(FillBw(FillTag(FillData(s))))
        Replace(s) == IF replace_way < num_ways THEN Fill(Evict(s)) ELSE s
        Miss(s) == CounterAccess(Replace(Ready(Fetch(Count(s)))), pol.counter)
        Body(s) ==
            IF ~TlbConsistent(s, tag, set_num) THEN Fail(s)
            ELSE IF s.tlb[tag].way # num_ways THEN Hit(TagAccess(s))
            ELSE Miss(TagAccess(s))
    IN Body(TlbLookup(sIn, tag))

\* UnisonCacheScheme::period has the body of AlloyCacheScheme::period.
UnisonPeriod(s) == Rebalance(Halve([s EXCEPT !.periods = @ + 1]), FALSE)

(***************************************************************************)
(* BansheeCacheScheme::period and BansheeCacheScheme::access               *)
(***************************************************************************)
BansheePeriod(s) == Rebalance(Halve([s EXCEPT !.periods = @ + 1]), TRUE)

\* if (type == LOAD && canInsert(tag)) insert(tag, false)
BansheeNoteLoad(s, type, tag) ==
    LET Note(x) ==
            IF x.abort THEN x
            ELSE IF canInsert(x, tag) THEN insert(x, tag, FALSE) ELSE x
    IN IF type = "LOAD" THEN Note(CanInsertAssert(s)) ELSE s

\* no eviction has updated the tag buffer
NoEvict == [tag |-> NoTag, replaced |-> NoTag, cleared |-> FALSE]

\* the tag buffer update of an eviction: make room for both tags by clearing
\* the tag buffer if need be, then enter both as remaps
BansheeRemap(s, tag, replaced_tag) ==
    LET Note(x) ==
            [x EXCEPT !.tb_evict = [tag |-> tag, replaced |-> replaced_tag,
                                    cleared |-> ~canInsert2(x, tag, replaced_tag)]]
        Room(x) ==
            IF x.abort THEN x
            ELSE IF ~canInsert2(x, tag, replaced_tag) THEN clearTagBuffer(Note(x)) ELSE Note(x)
        Check(x) ==
            IF x.abort \/ ~canInsert2(x, tag, replaced_tag) THEN Fail(x) ELSE x
        Remap(x, t) == IF x.abort THEN x ELSE insert(x, t, TRUE)
    IN Remap(Remap(Check(CanInsert2Assert(
                             Room(CanInsert2Assert(s, tag, replaced_tag)),
                             tag, replaced_tag)),
                   tag),
             replaced_tag)

\* eviction of a valid victim: TLB, write-back, tag buffer
BansheeEvict(s, tag, victim) ==
    LET replaced_tag == victim.tag
        bursts == (granularity \div 64) * 4
        Unmap(x) ==
            [x EXCEPT !.tlb = TlbPut(@, replaced_tag,
                [(IF replaced_tag \in DOMAIN x.tlb THEN x.tlb[replaced_tag] ELSE ZeroTLBEntry)
                    EXCEPT !.way = num_ways])]
        WriteBack(x) ==
            IF victim.dirty
            THEN ExtBw(McBw(Dev(Dev(x, "mc", "GETS", 2, bursts, NoTag),
                                "ext", "PUTX", 2, bursts, replaced_tag), bursts), bursts)
            ELSE x
    IN BansheeRemap(WriteBack(Unmap(s)), tag, replaced_tag)

BansheeAccess(sIn, req, pol) ==
    LET type == IF IsLoad(req.type) THEN "LOAD" ELSE "STORE"
        address == req.lineAddr
        tag == address \div granularity
        set_num == tag % num_sets
        replace_way == PageHandleCacheMiss(pol)
        bursts == (granularity \div 64) * 4
        SramTag(s) == IF sram_tag THEN [s EXCEPT !.cycle = @ + LlcLatency] ELSE s
        \* cache hit
        HitCount(s, hit_way) ==
            [s EXCEPT !.num_hit_per_step = @ + 1,
                      !.cache = IF type = "STORE"
                                THEN PutWay(@, set_num, hit_way,
                                         [GetWay(s.cache, set_num, hit_way) EXCEPT !.dirty = TRUE])
                                ELSE @,
                      !.numStoreHit = IF type = "STORE" THEN @ + 1 ELSE @,
                      !.numLoadHit = IF type = "LOAD" THEN @ + 1 ELSE @]
        HitData(s, hybrid_tag_probe) ==
            IF ~hybrid_tag_probe
            THEN BansheeNoteLoad(Ready(McBw(DevC(s, "mc", req.type, 0, 4, NoTag), 4)), type, tag)
            ELSE Ready(McBw(DevC(McBw(DevC(s, "mc", "GETS", 0, 2, NoTag), 2),
                                 "mc", req.type, 1, 4, NoTag), 4))
        \* cache miss
        Count(s) ==
            [s EXCEPT !.num_miss_per_step = @ + 1,
                      !.numLoadMiss = IF type = "LOAD" THEN @ + 1 ELSE @,
                      !.numStoreMiss = IF type = "STORE" THEN @ + 1 ELSE @]
        Fetch(s, hybrid_tag_probe) ==
            IF hybrid_tag_probe
            THEN Ready(ExtBw(DevC(McBw(DevC(s, "mc", "GETS", 0, 2, NoTag), 2),
                                  "ext", req.type, 1, 4, NoTag), 4))
            ELSE Ready(ExtBw(DevC(s, "ext", req.type, 0, 4, NoTag), 4))
        Evict(s) ==
            LET victim == GetWay(s.cache, set_num, replace_way)
            IN IF victim.valid THEN BansheeEvict(s, tag, victim) ELSE s
        FillData(s) ==
            Dev(Dev(s, "ext", "GETS", 2, bursts, NoTag), "mc", "PUTX", 2, bursts, NoTag)
        FillTag(s) ==
            IF ~sram_tag THEN McBw(Dev(s, "mc", "PUTX", 2, 2, NoTag), 2) ELSE s
        Install(s) ==
            [s EXCEPT !.ext_bw_per_step = @ + bursts,
                      !.mc_bw_per_step = @ + bursts,
                      !.cache = PutWay(@, set_num, replace_way,
                                    [valid |-> TRUE, tag |-> tag, dirty |-> (type = "STORE")]),
                      !.tlb[tag].way = replace_way]
        Fill(s) == IF s.abort THEN s ELSE Install(FillTag(FillData(s)))
        Replace(s) ==
            IF replace_way < num_ways THEN Fill(Evict(s))
            ELSE BansheeNoteLoad(s, type, tag)
        \* common tail
        Counters(s, counter_access) ==
            IF s.abort THEN s
            ELSE IF counter_access /\ ~sram_tag
            THEN IF set_num >= s.ds_index THEN CounterAccess(s, TRUE) ELSE Fail(s)
            ELSE s
        Occupancy(s) == IF OccupancyHigh(s) THEN clearTagBuffer(s) ELSE s
        Period(s) == IF s.num_requests % step_length = 0 THEN BansheePeriod(s) ELSE s
        Finish(s) == IF s.abort THEN s ELSE Period(Occupancy(s))
        Probed(s, hybrid_tag_probe) ==
            IF s.tlb[tag].way # num_ways
            THEN Finish(Counters(HitData(HitCount(SramTag(s), s.tlb[tag].way), hybrid_tag_probe),
                               PageHandleCacheHit(pol)))
            ELSE Finish(Counters(Replace(Fetch(Count(SramTag(s)), hybrid_tag_probe)),
                               pol.counter))
        Body(s) ==
            IF ~TlbConsistent(s, tag, set_num) THEN Fail(s)
            ELSE Probed(s, type = "STORE" /\ existInTB(s, tag) = TBNumWays
                           /\ set_num >= s.ds_index /\ ~sram_tag)
    IN Body(TlbLookup(sIn, tag))

(***************************************************************************)
(* NDCScheme: address translation (ndc.h), access and period.              *)
(***************************************************************************)
RECURSIVE CeilLog2(_)
CeilLog2(n) == IF n <= 1 THEN 0 ELSE 1 + CeilLog2((n + 1) \div 2)

Bit(x, i) == (x \div Pow2(i)) % 2

num_cache_tag_bits == CeilLog2(num_ways)
num_index_bits == CeilLog2(num_sets)
num_cache_bits == num_cache_tag_bits + num_index_bits
\* the default masks of the constructor, as sets of bit positions
index_mask == {i \in 0..(num_cache_bits - 1) : i >= num_cache_tag_bits}
cache_tag_mask == (0..(num_cache_bits - 1)) \ index_mask
IsTagPos(i) == i >= CoPos /\ i < CoPos + num_cache_tag_bits

\* the two extraction loops of phyAddr2cacheAddr: gather the bits of hex_addr
\* selected by a mask into a dense value
RECURSIVE ExtractBits(_, _, _, _, _)
ExtractBits(hex_addr, mask, i, bit_pos, limit) ==
    IF i >= num_cache_bits \/ bit_pos >= limit THEN 0
    ELSE IF i \in mask
         THEN Bit(hex_addr, i) * Pow2(bit_pos) + ExtractBits(hex_addr, mask, i + 1, bit_pos + 1, limit)
         ELSE ExtractBits(hex_addr, mask, i + 1, bit_pos, limit)

\* the placement loop of phyAddr2cacheAddr: index bits into the non-tag positions
RECURSIVE PlaceIndex(_, _, _)
PlaceIndex(index_value, i, bit_pos) ==
    IF i >= num_cache_bits \/ bit_pos >= num_index_bits THEN 0
    ELSE IF IsTagPos(i) THEN PlaceIndex(index_value, i + 1, bit_pos)
    ELSE Bit(index_value, bit_pos) * Pow2(i) + PlaceIndex(index_value, i + 1, bit_pos + 1)

phyAddr2cacheAddr(phy_addr) ==
    LET hex_addr == phy_addr \div Pow2(NumShiftBits)
        tag_value == ExtractBits(hex_addr, cache_tag_mask, 0, 0, num_cache_tag_bits)
        index_value == ExtractBits(hex_addr, index_mask, 0, 0, num_index_bits)
        cache_addr == tag_value * Pow2(CoPos) + PlaceIndex(index_value, 0, 0)
        low == phy_addr % Pow2(NumShiftBits)
        \* phy_addr & (_pred_tag_mask << _num_shift_bits)
        pred == ((phy_addr \div Pow2(num_cache_bits + NumShiftBits))
                    % Pow2(ext_line_bits - num_cache_bits))
                * Pow2(num_cache_bits + NumShiftBits)
    IN cache_addr * Pow2(NumShiftBits) + low + pred

RECURSIVE SetBits(_, _, _)
SetBits(hex_addr, i, bit_pos) ==
    IF i >= num_cache_bits \/ bit_pos >= num_index_bits THEN 0
    ELSE IF IsTagPos(i) THEN SetBits(hex_addr, i + 1, bit_pos)
    ELSE Bit(hex_addr, i) * Pow2(bit_pos) + SetBits(hex_addr, i + 1, bit_pos + 1)

getSetNum(cache_addr) == SetBits(cache_addr \div Pow2(NumShiftBits), 0, 0)

\* (hex_addr >> _co_pos) & ((1 << _num_cache_tag_bits) - 1)
\*     | (cache_addr & (_pred_tag_mask << _num_shift_bits))
getTag(cache_addr) ==
    LET hex_addr == cache_addr \div Pow2(NumShiftBits)
        pred == ((cache_addr \div Pow2(num_cache_bits + NumShiftBits))
                    % Pow2(ext_line_bits - num_cache_bits))
                * Pow2(num_cache_bits + NumShiftBits)
    IN ((hex_addr \div Pow2(CoPos)) % Pow2(num_cache_tag_bits)) + pred

\* a victim selection among all ways of the set: C29 does not survive it
NdcCandidatesAnyWay(s, set_num) == 0..(num_ways - 1)

\* victim selection: invalid ways, else clean ways, else dirty ways, in way
\* order; std::rand() picks among them
NdcCandidates(s, set_num) ==
    LET ws == 0..(num_ways - 1)
        inv == {w \in ws : ~GetWay(s.cache, set_num, w).valid}
        cln == {w \in ws : GetWay(s.cache, set_num, w).valid /\ ~GetWay(s.cache, set_num, w).dirty}
        drt == {w \in ws : GetWay(s.cache, set_num, w).valid /\ GetWay(s.cache, set_num, w).dirty}
    IN IF inv # {} THEN inv ELSE IF cln # {} THEN cln ELSE drt

\* the k-th (from 0) element of a set of ways in increasing order
RECURSIVE Nth(_, _)
Nth(S, k) ==
    LET m == CHOOSE x \in S : \A y \in S : x <= y
    IN IF k = 0 THEN m ELSE Nth(S \ {m}, k - 1)

NdcVictim(s, set_num, rand) ==
    LET c == NdcCandidates(s, set_num) IN Nth(c, rand % Cardinality(c))

\* a fill that counts the miss a second time: C4 does not survive it
NdcFillCounting(s, set_num, victim_way, tag, dirty) ==
    [s EXCEPT !.cache = PutWay(@, set_num, victim_way,
                            [tag |-> tag, valid |-> TRUE, dirty |-> dirty]),
              !.numLoadMiss = @ + 1]

\* eviction and fill shared by the load-miss and store-miss branches
NdcFill(s, set_num, victim_way, tag, dirty) ==
    LET v == GetWay(s.cache, set_num, victim_way)
        a == IF v.valid /\ v.dirty
             THEN [Dev(Dev(s, "mc", "GETS", 2, 4, NoTag), "ext", "PUTX", 2, 4, v.tag)
                      EXCEPT !.mc_bw_per_step = @ + 4, !.ext_bw_per_step = @ + 4]
             ELSE s
    IN [a EXCEPT !.cache = PutWay(@, set_num, victim_way,
                               [tag |-> tag, valid |-> TRUE, dirty |-> dirty])]

NdcAccess(s0, req, pol) ==
    LET type == IF IsLoad(req.type) THEN "LOAD" ELSE "STORE"
        address == req.lineAddr
        mc_address == phyAddr2cacheAddr(address)
        tag == address
        At(set_num) ==
            LET hits == {w \in 0..(num_ways - 1) :
                            GetWay(s0.cache, set_num, w).valid
                            /\ GetWay(s0.cache, set_num, w).tag = tag}
                hit_way == IF hits = {} THEN num_ways
                           ELSE CHOOSE w \in hits : \A x \in hits : w <= x
                \* LOAD
                Load(s) == McBw(DevC(s, "mc", "GETS", 0, 4, NoTag), 4)
                LoadHit(s) ==
                    Ready([s EXCEPT !.num_hit_per_step = @ + 1, !.numLoadHit = @ + 1])
                LoadFetch(s) ==
                    [ExtBw(Dev(s, "ext", "GETS", 1, 4, NoTag), 4)
                        EXCEPT !.num_miss_per_step = @ + 1, !.numLoadMiss = @ + 1,
                               !.ret = DevRet(s, s.cycle)]
                LoadMiss(s) ==
                    NdcFill(LoadFetch(s), set_num, NdcVictim(s0, set_num, pol.rand), tag, FALSE)
                \* STORE
                Store(s) == McBw(DevC(s, "mc", "PUTX", 0, 4, NoTag), 4)
                StoreHit(s) ==
                    Ready([s EXCEPT !.num_hit_per_step = @ + 1, !.numStoreHit = @ + 1,
                                    !.cache = PutWay(@, set_num, hit_way,
                                                  [GetWay(s0.cache, set_num, hit_way)
                                                      EXCEPT !.dirty = TRUE])])
                StoreCount(s) ==
                    Ready([s EXCEPT !.num_miss_per_step = @ + 1, !.numStoreMiss = @ + 1])
                StoreMiss(s) ==
                    NdcFill(StoreCount(s), set_num, NdcVictim(s0, set_num, pol.rand), tag, TRUE)
            IN IF type = "LOAD"
               THEN IF hit_way < num_ways THEN LoadHit(Load(s0)) ELSE LoadMiss(Load(s0))
               ELSE IF hit_way < num_ways THEN StoreHit(Store(s0)) ELSE StoreMiss(Store(s0))
    IN At(getSetNum(mc_address))

\* the period() of NDC, CacheOnly, IdealFully and IdealHotness: the whole
\* body sits under if (_bw_balance && _num_requests % _step_length == 0)
GuardedPeriod(s) ==
    LET s1 == [s EXCEPT !.periods = @ + 1]
    IN IF bw_balance /\ s.num_requests % step_length = 0
       THEN Rebalance(Halve(s1), FALSE)
       ELSE s1

NdcPeriod(s) == GuardedPeriod(s)

(***************************************************************************)
(* CacheOnlyScheme                                                         *)
(***************************************************************************)
\* an access that answers with data_ready_cycle left at 0: C2 does not survive it
CacheOnlyAccessZero(s0, req) ==
    LET a == DevC(s0, "mc", req.type, 0, 4, NoTag)
    IN [a EXCEPT !.numLoadHit = @ + 1, !.ret = 0]

CacheOnlyAccess(s0, req) ==
    LET a == DevC(s0, "mc", req.type, 0, 4, NoTag)
    IN [a EXCEPT !.numLoadHit = @ + 1, !.ret = a.cycle]

CacheOnlyPeriod(s) == GuardedPeriod(s)

(***************************************************************************)
(* IdealBalancedScheme                                                     *)
(***************************************************************************)
\* _line_entries[line].way, num_ways for a line never placed
LineWay(s, line_num) ==
    IF line_num \in DOMAIN s.line_entries THEN s.line_entries[line_num] ELSE num_ways

SetLineWay(le, line_num, way) ==
    [x \in DOMAIN le \cup {line_num} |-> IF x = line_num THEN way ELSE le[x]]

\* a hit test that never finds the line: C1 does not survive it
LineHitWayNever(s, line_num, tag) == num_ways

\* the hit test shared by IdealBalanced and IdealFully
LineHitWay(s, line_num, tag) ==
    LET w == LineWay(s, line_num)
    IN IF w < num_ways /\ GetWay(s.cache, 0, w).valid /\ GetWay(s.cache, 0, w).tag = tag
       THEN w ELSE num_ways

\* write a dirty victim back (4 bursts, mode 2), then fill the way
IdealFill(s, victim_way, tag, dirty) ==
    LET v == GetWay(s.cache, 0, victim_way)
        a == IF v.valid /\ v.dirty
             THEN [Dev(s, "ext", "PUTX", 2, 4, v.tag) EXCEPT !.ext_bw_per_step = @ + 4]
             ELSE s
    IN [a EXCEPT !.cache = PutWay(@, 0, victim_way,
                               [tag |-> tag, valid |-> TRUE, dirty |-> dirty])]

\* victim of IdealBalanced: the way recorded for the line, else round robin
BalancedVictim(s, line_num) ==
    IF LineWay(s, line_num) < num_ways
    THEN [s EXCEPT !.victim = LineWay(s, line_num)]
    ELSE [s EXCEPT !.victim = s.current_way,
                   !.current_way = (s.current_way + 1) % num_ways,
                   !.line_entries = SetLineWay(@, line_num, s.current_way)]

IdealBalancedAccess(s0, req) ==
    LET type == IF IsLoad(req.type) THEN "LOAD" ELSE "STORE"
        address == req.lineAddr % (Pow2(ext_line_bits) * 64)
        tag == address
        line_num == tag
        hit_way == LineHitWay(s0, line_num, tag)
        Fill(s, dirty) == IdealFill(s, s.victim, tag, dirty)
        \* LOAD
        Load(s) == McBw(DevC(s, "mc", "GETS", 0, 4, NoTag), 4)
        LoadHit(s) == Ready([s EXCEPT !.num_hit_per_step = @ + 1, !.numLoadHit = @ + 1])
        LoadFetch(s) ==
            [ExtBw(Dev(s, "ext", "GETS", 1, 4, NoTag), 4)
                EXCEPT !.num_miss_per_step = @ + 1, !.numLoadMiss = @ + 1,
                       !.ret = DevRet(s, s.cycle)]
        LoadMiss(s) == Fill(BalancedVictim(LoadFetch(s), line_num), FALSE)
        \* STORE
        Store(s) == McBw(DevC(s, "mc", "PUTX", 0, 4, NoTag), 4)
        StoreHit(s) ==
            Ready([s EXCEPT !.num_hit_per_step = @ + 1, !.numStoreHit = @ + 1,
                            !.cache = PutWay(@, 0, hit_way,
                                          [GetWay(s0.cache, 0, hit_way) EXCEPT !.dirty = TRUE])])
        StoreCount(s) ==
            Ready([s EXCEPT !.num_miss_per_step = @ + 1, !.numStoreMiss = @ + 1])
        StoreMiss(s) == Fill(BalancedVictim(StoreCount(s), line_num), TRUE)
    IN IF type = "LOAD"
       THEN IF hit_way < num_ways THEN LoadHit(Load(s0)) ELSE LoadMiss(Load(s0))
       ELSE IF hit_way < num_ways THEN StoreHit(Store(s0)) ELSE StoreMiss(Store(s0))

\* IdealBalancedScheme::period and CHAMOScheme::period: the body of Alloy's
UngatedPeriod(s) == Rebalance(Halve([s EXCEPT !.periods = @ + 1]), FALSE)

IdealBalancedPeriod(s) == UngatedPeriod(s)

(***************************************************************************)
(* IdealFullyScheme                                                        *)
(***************************************************************************)
\* the ring as the constructor links it
InitLruArray(n) ==
    [i \in 0..(n - 1) |-> [prev |-> IF i > 0 THEN i - 1 ELSE n - 1,
                           next |-> IF i < n - 1 THEN i + 1 ELSE 0]]

\* updateLRU without its if (way == _lru_way) _lru_way = prev: C12 does not
\* survive it
FullyUpdateLRUStaleLru(s, way) ==
    IF way = s.mru_way THEN s
    ELSE LET a0 == s.lru_array
             prev == a0[way].prev
             next == a0[way].next
             a1 == [a0 EXCEPT ![prev].next = next]
             a2 == [a1 EXCEPT ![next].prev = prev]
             lru == s.lru_way
             old_prev_of_mru == a2[s.mru_way].prev
             a3 == [a2 EXCEPT ![way].next = s.mru_way]
             a4 == [a3 EXCEPT ![way].prev = old_prev_of_mru]
             a5 == [a4 EXCEPT ![s.mru_way].prev = way]
             a6 == [a5 EXCEPT ![old_prev_of_mru].next = way]
         IN [s EXCEPT !.lru_array = a6, !.lru_way = lru, !.mru_way = way]

\* IdealFullyScheme::updateLRU, assignment by assignment
FullyUpdateLRU(s, way) ==
    IF way = s.mru_way THEN s
    ELSE LET a0 == s.lru_array
             prev == a0[way].prev
             next == a0[way].next
             a1 == [a0 EXCEPT ![prev].next = next]
             a2 == [a1 EXCEPT ![next].prev = prev]
             lru == IF way = s.lru_way THEN prev ELSE s.lru_way
             old_prev_of_mru == a2[s.mru_way].prev
             a3 == [a2 EXCEPT ![way].next = s.mru_way]
             a4 == [a3 EXCEPT ![way].prev = old_prev_of_mru]
             a5 == [a4 EXCEPT ![s.mru_way].prev = way]
             a6 == [a5 EXCEPT ![old_prev_of_mru].next = way]
         IN [s EXCEPT !.lru_array = a6, !.lru_way = lru, !.mru_way = way]

\* a victim choice that takes the most recently used way
getLRUWayMru(s) == s.mru_way

\* IdealFullyScheme::getLRUWay
getLRUWay(s) == s.lru_way

IdealFullyAccess(s0, req) ==
    LET type == IF IsLoad(req.type) THEN "LOAD" ELSE "STORE"
        address == req.lineAddr
        tag == address
        line_num == tag
        hit_way == LineHitWay(s0, line_num, tag)
        victim_way == getLRUWay(s0)
        \* LOAD
        Load(s) == McBw(DevC(s, "mc", "GETS", 0, 4, NoTag), 4)
        LoadHit(s) == Ready([s EXCEPT !.num_hit_per_step = @ + 1, !.numLoadHit = @ + 1])
        LoadFetch(s) ==
            [ExtBw(Dev(s, "ext", "GETS", 1, 4, NoTag), 4)
                EXCEPT !.num_miss_per_step = @ + 1, !.numLoadMiss = @ + 1,
                       !.ret = DevRet(s, s.cycle),
                       !.line_entries = SetLineWay(@, line_num, victim_way)]
        LoadMiss(s) == IdealFill(LoadFetch(s), victim_way, tag, FALSE)
        \* STORE
        Store(s) == McBw(DevC(s, "mc", "PUTX", 0, 4, NoTag), 4)
        StoreHit(s) ==
            Ready([s EXCEPT !.num_hit_per_step = @ + 1, !.numStoreHit = @ + 1,
                            !.cache = PutWay(@, 0, hit_way,
                                          [GetWay(s0.cache, 0, hit_way) EXCEPT !.dirty = TRUE])])
        StoreCount(s) ==
            Ready([s EXCEPT !.num_miss_per_step = @ + 1, !.numStoreMiss = @ + 1,
                            !.line_entries = SetLineWay(@, line_num, victim_way)])
        StoreMiss(s) == IdealFill(StoreCount(s), victim_way, tag, TRUE)
    IN IF type = "LOAD"
       THEN IF hit_way < num_ways
            THEN FullyUpdateLRU(LoadHit(Load(s0)), hit_way)
            ELSE FullyUpdateLRU(LoadMiss(Load(s0)), victim_way)
       ELSE IF hit_way < num_ways
            THEN FullyUpdateLRU(StoreHit(Store(s0)), hit_way)
            ELSE FullyUpdateLRU(StoreMiss(Store(s0)), victim_way)

IdealFullyPeriod(s) == GuardedPeriod(s)

(***************************************************************************)
(* IdealHotnessScheme                                                      *)
(***************************************************************************)
HotPages == 0..(HotNumPages - 1)

InitPageTable ==
    [i \in HotPages |-> [frequency |-> 0, valid |-> FALSE, dirty |-> FALSE, tag |-> 0]]

\* a victim search that takes the first page when none is invalid
findVictimPageFirst(s) ==
    LET inv == {i \in HotPages : ~s.page_table[i].valid}
    IN IF inv # {} THEN CHOOSE i \in inv : \A j \in inv : i <= j
       ELSE 0

\* IdealHotnessScheme::findVictimPage
findVictimPage(s) ==
    LET inv == {i \in HotPages : ~s.page_table[i].valid}
        min_freq == CHOOSE f \in {s.page_table[i].frequency : i \in HotPages} :
                        \A i \in HotPages : f <= s.page_table[i].frequency
        low == {i \in HotPages : s.page_table[i].frequency = min_freq}
    IN IF inv # {} THEN CHOOSE i \in inv : \A j \in inv : i <= j
       ELSE CHOOSE i \in low : \A j \in low : i <= j

\* IdealHotnessScheme::incrementFrequency
incrementFrequency(s, pageIndex) ==
    IF s.page_table[pageIndex].frequency < UInt32Max
    THEN [s EXCEPT !.page_table[pageIndex].frequency = @ + 1]
    ELSE s

\* IdealHotnessScheme::decayFrequencies
decayFrequencies(s) ==
    [s EXCEPT !.page_table = [i \in HotPages |-> [@[i] EXCEPT !.frequency = @ \div 2]]]

\* n chained external-DRAM accesses: each starts when the previous is ready
RECURSIVE HotBurst(_, _, _, _, _)
HotBurst(s, n, type, mode, wb) ==
    IF n = 0 THEN s
    ELSE HotBurst([Dev(s, "ext", type, mode, 4, wb) EXCEPT !.ret = DevRet(s, s.ret)],
                  n - 1, type, mode, wb)

IdealHotnessAccess(s0, req) ==
    LET page_number == req.lineAddr \div HotLinesPerPage
        is_write == ~IsLoad(req.type)
        \* page hit
        Hit(s, page_index) ==
            [incrementFrequency(s, page_index)
                EXCEPT !.page_table[page_index].dirty = IF is_write THEN TRUE ELSE @,
                       !.numStoreHit = IF is_write THEN @ + 1 ELSE @,
                       !.numLoadHit = IF is_write THEN @ ELSE @ + 1,
                       !.num_hit_per_step = @ + 1]
        \* page miss
        Count(s) ==
            [s EXCEPT !.numStoreMiss = IF is_write THEN @ + 1 ELSE @,
                      !.numLoadMiss = IF is_write THEN @ ELSE @ + 1,
                      !.num_miss_per_step = @ + 1]
        WriteBack(s, v) ==
            IF v.dirty THEN HotBurst(s, HotLinesPerPage, "PUTX", 2, v.tag) ELSE s
        Evict(s, v) ==
            IF v.valid
            THEN [WriteBack(s, v) EXCEPT !.page_location = [x \in DOMAIN @ \ {v.tag} |-> @[x]]]
            ELSE s
        Load(s) == HotBurst(s, HotLinesPerPage, "GETS", 1, NoTag)
        Install(s, victim_index) ==
            [s EXCEPT !.page_table[victim_index] =
                          [valid |-> TRUE, dirty |-> is_write, tag |-> page_number,
                           frequency |-> 1],
                      !.page_location =
                          [x \in DOMAIN @ \cup {page_number} |->
                              IF x = page_number THEN victim_index ELSE @[x]]]
        Replace(s, victim_index) ==
            Install(Load(Evict(s, s.page_table[victim_index])), victim_index)
        Miss(s) == Replace(Count(s), findVictimPage(s))
        \* the migration period
        Tick(s) ==
            IF s.period_counter + 1 >= MigrationPeriod
            THEN [decayFrequencies(s) EXCEPT !.period_counter = 0]
            ELSE [s EXCEPT !.period_counter = @ + 1]
    IN Tick(IF page_number \in DOMAIN s0.page_location
            THEN Hit(s0, s0.page_location[page_number])
            ELSE Miss(s0))

IdealHotnessPeriod(s) == GuardedPeriod(s)

(***************************************************************************)
(* hash.cpp: 64-bit unsigned arithmetic on eight 8-bit limbs (least        *)
(* significant first), XXHash, LCGHash and NextLineHash.                   *)
(***************************************************************************)
Limbs == 1..8

\* a key below 2^24 as a uint64_t
U64(key) == [i \in Limbs |-> IF i <= 3 THEN (key \div Pow2(8 * (i - 1))) % 256 ELSE 0]

RECURSIVE U64AddFrom(_, _, _, _)
U64AddFrom(a, b, i, carry) ==
    IF i > 8 THEN <<>>
    ELSE LET t == a[i] + b[i] + carry
         IN <<t % 256>> \o U64AddFrom(a, b, i + 1, t \div 256)

\* a + b, wrapping at 2^64
U64Add(a, b) == U64AddFrom(a, b, 1, 0)

RECURSIVE U64Column(_, _, _, _)
U64Column(a, b, k, i) ==
    IF i > k THEN 0 ELSE a[i] * b[k + 1 - i] + U64Column(a, b, k, i + 1)

RECURSIVE U64MulFrom(_, _, _, _)
U64MulFrom(a, b, k, carry) ==
    IF k > 8 THEN <<>>
    ELSE LET t == carry + U64Column(a, b, k, 1)
         IN <<t % 256>> \o U64MulFrom(a, b, k + 1, t \div 256)

\* a * b, wrapping at 2^64
U64Mul(a, b) == U64MulFrom(a, b, 1, 0)

\* a >> bits
U64Shr(a, bits) ==
    LET q == bits \div 8
        r == bits % 8
        limb(j) == IF j <= 8 THEN a[j] ELSE 0
    IN [i \in Limbs |-> (limb(i + q) \div Pow2(r)) + (limb(i + q + 1) % Pow2(r)) * Pow2(8 - r)]

RECURSIVE XorByte(_, _)
XorByte(x, y) ==
    IF x = 0 /\ y = 0 THEN 0
    ELSE (((x % 2) + (y % 2)) % 2) + 2 * XorByte(x \div 2, y \div 2)

\* a ^ b
U64Xor(a, b) == [i \in Limbs |-> XorByte(a[i], b[i])]

RECURSIVE U64ModFrom(_, _, _, _)
U64ModFrom(a, n, i, r) ==
    IF i < 1 THEN r ELSE U64ModFrom(a, n, i - 1, (r * 256 + a[i]) % n)

\* a % n for a small n
U64Mod(a, n) == U64ModFrom(a, n, 8, 0)

\* 0x9E3779B185EBCA87, 0xC2B2AE3D27D4EB4F, 0x165667B19E3779F9
prime1 == <<135, 202, 235, 133, 177, 121, 55, 158>>
prime2 == <<79, 235, 212, 39, 61, 174, 178, 194>>
prime3 == <<249, 121, 55, 158, 177, 103, 86, 22>>

\* h ^= h >> bits
XorShift(h, bits) == U64Xor(h, U64Shr(h, bits))

XXHash(key) ==
    XorShift(U64Mul(XorShift(U64Mul(XorShift(U64Add(U64(key), prime1), 33), prime2), 29),
                    prime3), 32)

\* (hi * 2^16 + lo) % n
HalvesMod(hi, lo, n) == ((hi % n) * (65536 % n) + lo) % n

\* LCGHash::LCG_hash(key, 0) = (0x9E3779B9 * key + 0xB7E15162) % nr_bucket_;
\* the product stays below 2^64 for the keys at hand, so reducing the
\* factors first gives the same remainder
LCG_hash(key, nr_bucket) ==
    (HalvesMod(40503, 31161, nr_bucket) * (key % nr_bucket)
        + HalvesMod(47073, 20834, nr_bucket)) % nr_bucket

\* -a, wrapping at 2^64
U64Neg(a) == U64Add([i \in Limbs |-> 255 - a[i]], U64(1))

\* LCGHash::InitLCGEntry, the hard-coded parameters: a = 0x9E3779B9 and
\* b = 0xB7E15162 for hash index 0, a = 0x6C078965 and b = 0xCAFEBABE for 1
lcg_a == [h \in 0..1 |-> IF h = 0 THEN <<185, 121, 55, 158, 0, 0, 0, 0>>
                         ELSE <<101, 137, 7, 108, 0, 0, 0, 0>>]
lcg_b == [h \in 0..1 |-> IF h = 0 THEN <<98, 81, 225, 183, 0, 0, 0, 0>>
                         ELSE <<190, 186, 254, 202, 0, 0, 0, 0>>]

\* an inverse that stops at the first guess inv = a
ModularInverseFirstGuess(a) == a

\* LCGHash::ModularInverse: five Newton steps inv = inv * (2 - a * inv) from
\* inv = a, in uint64_t
ModularInverse(a) ==
    LET step(inv) == U64Mul(inv, U64Add(U64(2), U64Neg(U64Mul(a, inv))))
    IN step(step(step(step(step(a)))))

\* LCGHash::InitLCGEntry: lcg_list_ with a_rev computed
lcg_list_ == [h \in 0..1 |-> [a |-> lcg_a[h], a_rev |-> ModularInverse(lcg_a[h]), b |-> lcg_b[h]]]

\* LCGHash::LCG_hash of an object with nr_bucket_ buckets, in uint64_t
LCGHash_LCG_hash(nr_bucket, key, hash_index) ==
    U64Mod(U64Add(U64Mul(lcg_list_[hash_index].a, U64(key)), lcg_list_[hash_index].b),
           nr_bucket)

\* LCGHash::LCG_rev_hash
LCG_rev_hash(nr_bucket, bucket_idx, hash_index) ==
    U64Mod(U64Mul(lcg_list_[hash_index].a_rev,
                  U64Add(U64Add(U64(bucket_idx), U64(nr_bucket)),
                         U64Neg(lcg_list_[hash_index].b))),
           nr_bucket)

\* NextLineHash::Hash for hash_idx 0 and 1
NextLineHash(key, hash_idx, nr_bucket) ==
    IF hash_idx = 0 THEN key ELSE (key + 1) % nr_bucket

(***************************************************************************)
(* CuckooHash (hash/cuckoo_hash.cc).  A record `c' holds the object: the   *)
(* geometry the constructor fixes, cur_hash_assoc_limit_, buckets_[hash    *)
(* assoc][bucket], index_metadata_ (a function on the addresses that have  *)
(* a record), cuckoo_metric_, the assert that failed ("" while none has)   *)
(* and what the last GetTargetSetIdx returned.                             *)
(***************************************************************************)
\* 0xc3a5c85c97cb3127, 0xb492b66fbe98f273
city_k1 == <<39, 49, 203, 151, 92, 200, 165, 195>>
city_k2 == <<115, 242, 152, 190, 111, 182, 146, 180>>

CityHash(key) ==
    XorShift(U64Mul(XorShift(U64Mul(XorShift(U64(key), 33), city_k1), 29), city_k2), 32)

MaxCuckooKey == 5
CuckooKeys == 0..MaxCuckooKey

\* XXHash and CityHash of the addresses at hand, computed once
key_hashes == [map_idx \in 0..1 |->
                 [key \in CuckooKeys |-> IF map_idx = 0 THEN XXHash(key) ELSE CityHash(key)]]

\* CuckooHash::Hash: XXHash for hash index 0, CityHash for 1, onto the sets
Hash(c, key, map_idx) == U64Mod(key_hashes[map_idx][key], c.nr_set_per_page_)

NoCuckooEntry == [valid |-> FALSE, map_idx |-> 0, way_idx |-> 0, footprint |-> 0]

\* a failed assert of the object: the first one is kept
CuckooFail(c, what) == IF c.failed = "" THEN [c EXCEPT !.failed = what] ELSE c

\* CuckooHash::CheckFreeBucket: the first invalid slot of the bucket set, by
\* hash assoc and then by way
CheckFreeBucket(c, bucket_set_idx) ==
    LET free == {p \in (0..(c.cur_hash_assoc_limit_ - 1)) \X (0..(c.bucket_assoc_ - 1)) :
                    ~c.buckets_[p[1]][bucket_set_idx * c.bucket_assoc_ + p[2]].valid}
        first == CHOOSE p \in free :
                    \A q \in free : p[1] < q[1] \/ (p[1] = q[1] /\ p[2] <= q[2])
    IN IF free = {} THEN [found |-> FALSE, hash_assoc |-> 0, way_idx |-> 0]
       ELSE [found |-> TRUE, hash_assoc |-> first[1], way_idx |-> first[2]]

\* CuckooHash::ClearCuckooHashInfo
ClearCuckooHashInfo(c, e) ==
    LET origin_hash_idx == 1 - e.target_hash_idx
        bucket_idx == Hash(c, e.phy_cache_addr, origin_hash_idx) * c.bucket_assoc_
                          + e.origin_dram_way_idx
    IN IF ~(e.origin_hash_assoc_idx \in 0..(c.hash_assoc_ - 1)
            /\ bucket_idx \in 0..(c.nr_bucket_ - 1))
       THEN CuckooFail(c, "ClearCuckooHashInfo")
       ELSE IF ~(c.buckets_[e.origin_hash_assoc_idx][bucket_idx].valid
                 /\ c.buckets_[e.origin_hash_assoc_idx][bucket_idx].footprint = e.phy_cache_addr)
       THEN CuckooFail(c, "ClearCuckooHashInfo")
       ELSE [c EXCEPT !.buckets_[e.origin_hash_assoc_idx][bucket_idx] = NoCuckooEntry,
                      !.index_metadata_ = [a \in DOMAIN @ \ {e.phy_cache_addr} |-> @[a]]]

\* CuckooHash::UpdateInfo: _UpdateCuckooHashInfo, then _UpdateIndexInfo
UpdateInfo(c, phy_cache_addr, hash_idx, target_hash_assoc_idx, target_way_idx) ==
    LET bucket_idx == Hash(c, phy_cache_addr, hash_idx) * c.bucket_assoc_ + target_way_idx
    IN IF ~(target_hash_assoc_idx \in 0..(c.hash_assoc_ - 1)
            /\ target_way_idx \in 0..(c.bucket_assoc_ - 1)
            /\ bucket_idx \in 0..(c.nr_bucket_ - 1))
       THEN CuckooFail(c, "_UpdateCuckooHashInfo")
       ELSE IF phy_cache_addr \in DOMAIN c.index_metadata_
       THEN CuckooFail([c EXCEPT !.buckets_[target_hash_assoc_idx][bucket_idx] =
                                     [valid |-> TRUE, map_idx |-> hash_idx,
                                      way_idx |-> target_way_idx,
                                      footprint |-> phy_cache_addr]],
                       "_UpdateIndexInfo")
       ELSE [c EXCEPT !.buckets_[target_hash_assoc_idx][bucket_idx] =
                          [valid |-> TRUE, map_idx |-> hash_idx, way_idx |-> target_way_idx,
                           footprint |-> phy_cache_addr],
                      !.index_metadata_ =
                          [a \in DOMAIN @ \cup {phy_cache_addr} |->
                              IF a = phy_cache_addr
                              THEN [is_cuckoo |-> TRUE, map_idx |-> hash_idx,
                                    hash_assoc_idx |-> target_hash_assoc_idx,
                                    way_idx |-> target_way_idx]
                              ELSE @[a]]]

\* CuckooHash::UpdateDirectMapInfo
UpdateDirectMapInfo(c, phy_cache_addr) ==
    IF phy_cache_addr \in DOMAIN c.index_metadata_
    THEN CuckooFail(c, "UpdateDirectMapInfo")
    ELSE [c EXCEPT !.index_metadata_ =
                       [a \in DOMAIN @ \cup {phy_cache_addr} |->
                           IF a = phy_cache_addr
                           THEN [is_cuckoo |-> FALSE, map_idx |-> 255,
                                 hash_assoc_idx |-> 255, way_idx |-> 255]
                           ELSE @[a]]]

\* one round of the loop of _InsertBFSQueue: the bucket set of the address
\* under hash_idx joins the queue unless it is the set the address is mapped
\* with or was traversed
PushBucketSet(bfs, tree_node, mapped_hash_idx, set_idx) ==
    IF tree_node.hash_idx = mapped_hash_idx \/ set_idx \in bfs.is_traverse THEN bfs
    ELSE [bfs EXCEPT !.is_traverse = @ \cup {set_idx},
                     !.cuckoo_path_tree = Append(@, tree_node),
                     !.bucket_set_bfs_queue =
                         Append(@, [bucket_set_idx |-> set_idx,
                                    tree_idx |-> Len(bfs.cuckoo_path_tree) + 1])]

\* CuckooHash::_InsertBFSQueue.  bfs holds the queue, the path tree (indexed
\* from 1; the root's predecessor is 0) and the traversed sets.
InsertBFSQueue(c, bfs, phy_cache_addr, mapped_hash_idx, hash_assoc_idx, way_idx, pre_tree_idx) ==
    LET node(hash_idx) == [pre_tree_idx |-> pre_tree_idx, phy_cache_addr |-> phy_cache_addr,
                           hash_assoc_idx |-> hash_assoc_idx, hash_idx |-> hash_idx,
                           way_idx |-> way_idx]
    IN PushBucketSet(PushBucketSet(bfs, node(0), mapped_hash_idx, Hash(c, phy_cache_addr, 0)),
                     node(1), mapped_hash_idx, Hash(c, phy_cache_addr, 1))

\* CuckooHash::_CaculateCuckooPath: from the tree node whose set has the free
\* slot back to the root; each entry moves into the slot its successor leaves
RECURSIVE CaculateCuckooPath(_, _, _, _)
CaculateCuckooPath(tree_idx, target_hash_assoc_idx, target_way_idx, cuckoo_path_tree) ==
    IF tree_idx = 0 THEN <<>>
    ELSE LET tree_node == cuckoo_path_tree[tree_idx]
         IN CaculateCuckooPath(tree_node.pre_tree_idx, tree_node.hash_assoc_idx,
                               tree_node.way_idx, cuckoo_path_tree)
                \o << [phy_cache_addr |-> tree_node.phy_cache_addr,
                       origin_hash_idx |-> 1 - tree_node.hash_idx,
                       origin_hash_assoc_idx |-> tree_node.hash_assoc_idx,
                       origin_dram_way_idx |-> tree_node.way_idx,
                       target_hash_idx |-> tree_node.hash_idx,
                       target_hash_assoc_idx |-> target_hash_assoc_idx,
                       target_bucket_way_idx |-> target_way_idx] >>

\* the for loop of GetCuckooPath over the ways of a full bucket set
RECURSIVE ExpandBucketSet(_, _, _, _)
ExpandBucketSet(c, bfs, set_bfs_entry, way_idx) ==
    IF way_idx >= c.bucket_assoc_ THEN bfs
    ELSE LET bucket_idx == set_bfs_entry.bucket_set_idx * c.bucket_assoc_ + way_idx
             hash_assoc_idx == c.cur_hash_assoc_limit_ - 1
             cuckoo_entry == c.buckets_[hash_assoc_idx][bucket_idx]
         IN IF ~cuckoo_entry.valid THEN [bfs EXCEPT !.failed = TRUE]
            ELSE ExpandBucketSet(c,
                     InsertBFSQueue(c, bfs, cuckoo_entry.footprint, cuckoo_entry.map_idx,
                                    hash_assoc_idx, cuckoo_entry.way_idx,
                                    set_bfs_entry.tree_idx),
                     set_bfs_entry, way_idx + 1)

\* the while loop of GetCuckooPath
RECURSIVE SearchCuckooPath(_, _)
SearchCuckooPath(c, bfs) ==
    IF bfs.bucket_set_bfs_queue = <<>> \/ bfs.failed
    THEN [is_found |-> FALSE, cuckoo_path |-> <<>>, failed |-> bfs.failed]
    ELSE LET set_bfs_entry == Head(bfs.bucket_set_bfs_queue)
             popped == [bfs EXCEPT !.bucket_set_bfs_queue = Tail(@)]
             free == CheckFreeBucket(c, set_bfs_entry.bucket_set_idx)
         IN IF free.found
            THEN [is_found |-> TRUE,
                  cuckoo_path |-> CaculateCuckooPath(set_bfs_entry.tree_idx, free.hash_assoc,
                                                     free.way_idx, bfs.cuckoo_path_tree),
                  failed |-> FALSE]
            ELSE SearchCuckooPath(c, ExpandBucketSet(c, popped, set_bfs_entry, 0))

\* CuckooHash::GetCuckooPath
GetCuckooPath(c, phy_cache_addr) ==
    SearchCuckooPath(c,
        InsertBFSQueue(c, [bucket_set_bfs_queue |-> <<>>, cuckoo_path_tree |-> <<>>,
                           is_traverse |-> {}, failed |-> FALSE],
                       phy_cache_addr, 2, -1, -1, 0))

\* a kick-out that puts the entry back under the hash function it had
KickOutEntryToOrigin(c, it) ==
    LET cleared == ClearCuckooHashInfo(c, it)
    IN IF cleared.failed # "" THEN cleared
       ELSE UpdateInfo(cleared, it.phy_cache_addr, it.origin_hash_idx,
                       it.target_hash_assoc_idx, it.target_bucket_way_idx)

\* the body of the loop of KickOutCuckooPath: the entry leaves its slot and
\* is recorded at its target
KickOutEntry(c, it) ==
    LET cleared == ClearCuckooHashInfo(c, it)
    IN IF cleared.failed # "" THEN cleared
       ELSE UpdateInfo(cleared, it.phy_cache_addr, it.target_hash_idx,
                       it.target_hash_assoc_idx, it.target_bucket_way_idx)

\* CuckooHash::KickOutCuckooPath: from the last entry of the path to the first
RECURSIVE KickOutCuckooPath(_, _)
KickOutCuckooPath(c, cuckoo_path) ==
    IF cuckoo_path = <<>> \/ c.failed # "" THEN c
    ELSE KickOutCuckooPath(KickOutEntry(c, cuckoo_path[Len(cuckoo_path)]),
                           SubSeq(cuckoo_path, 1, Len(cuckoo_path) - 1))

\* the count and limit update at the end of a successful Insert
CountCuckooMap(c) ==
    LET n == c.cuckoo_metric_.nr_cuckoo_map_ + 1
        counted == [c EXCEPT !.cuckoo_metric_.nr_cuckoo_map_ = n]
    IN IF n > c.hash_assoc_ * c.nr_bucket_ THEN CuckooFail(counted, "Insert: nr_cuckoo_map_")
       ELSE IF n > (c.cur_hash_assoc_limit_ * c.nr_bucket_ * c.target_load_ratio_) \div 100
       THEN [counted EXCEPT !.cur_hash_assoc_limit_ = Min(@ + 1, c.hash_assoc_)]
       ELSE counted

\* Insert, the path found: the new address takes the slot of the first entry
InsertPlaced(placed) ==
    IF placed.failed # "" THEN placed
    ELSE CountCuckooMap([placed EXCEPT !.cuckoo_metric_.nr_total_entry_ = @ + 1])

\* Insert, the path found: the entries after the first are kicked out
InsertKicked(c, phy_cache_addr, non_kick_entry, cuckoo_path) ==
    InsertPlaced(
        UpdateInfo(IF cuckoo_path = <<>> THEN c
                   ELSE KickOutCuckooPath(
                            [c EXCEPT !.cuckoo_metric_.nr_kick_out_ = @ + 1,
                                      !.cuckoo_metric_.cum_cuckoo_path_len_ = @ + Len(cuckoo_path)],
                            cuckoo_path),
                   phy_cache_addr, non_kick_entry.target_hash_idx,
                   non_kick_entry.target_hash_assoc_idx, non_kick_entry.target_bucket_way_idx))

\* Insert after its entry assert, with what GetCuckooPath returned
InsertPath(c, phy_cache_addr, got) ==
    IF got.failed THEN CuckooFail(c, "GetCuckooPath")
    ELSE IF got.is_found
    THEN InsertKicked(c, phy_cache_addr, got.cuckoo_path[1], Tail(got.cuckoo_path))
    ELSE [UpdateDirectMapInfo([c EXCEPT !.cuckoo_metric_.nr_total_entry_ = @ + 1],
                              phy_cache_addr)
             EXCEPT !.cuckoo_metric_.nr_direct_map_ = @ + 1]

\* CuckooHash::Insert
Insert(c, phy_cache_addr) ==
    IF c.cuckoo_metric_.nr_total_entry_ > c.nr_bucket_ * c.hash_assoc_
    THEN CuckooFail(c, "Insert: nr_total_entry_")
    ELSE InsertPath(c, phy_cache_addr, GetCuckooPath(c, phy_cache_addr))

\* CuckooHash::_GetTargetSetIdxDefault
GetTargetSetIdxDefault(c, phy_cache_addr) ==
    (phy_cache_addr \div c.bucket_assoc_) % c.nr_set_per_page_

\* CuckooHash::_GetTargetSetIdx: the address has a record
TargetSetIdx(c, phy_cache_addr) ==
    LET index_info == c.index_metadata_[phy_cache_addr]
        target_set_idx_in_page == Hash(c, phy_cache_addr, index_info.map_idx)
        target_cache_addr_in_page == target_set_idx_in_page * c.bucket_assoc_ + index_info.way_idx
        slot == c.buckets_[index_info.hash_assoc_idx][target_cache_addr_in_page]
    IN IF c.failed # "" THEN c
       ELSE IF phy_cache_addr \notin DOMAIN c.index_metadata_
       THEN CuckooFail(c, "_GetTargetSetIdx")
       ELSE IF index_info.is_cuckoo
       THEN IF /\ index_info.map_idx < 2
               /\ index_info.hash_assoc_idx < c.hash_assoc_
               /\ index_info.hash_assoc_idx < c.cur_hash_assoc_limit_
               /\ index_info.way_idx < c.bucket_assoc_
               /\ target_cache_addr_in_page < c.nr_bucket_
               /\ slot.valid
               /\ slot.map_idx = index_info.map_idx
               /\ slot.footprint = phy_cache_addr
            THEN [c EXCEPT !.ret = c.begin_dram_set_idx_ + target_set_idx_in_page]
            ELSE CuckooFail(c, "_GetTargetSetIdx")
       ELSE [c EXCEPT !.ret = c.begin_dram_set_idx_
                                  + GetTargetSetIdxDefault(c, phy_cache_addr)]

(***************************************************************************)
(* CHAMOScheme.  `chamo' holds the fields of the mapping: nr_map_limit_,   *)
(* hash_metric_, dram_overflow_rank_, dram_base_rank_,                     *)
(* dram_self_contain_rank_, access_bit_map_, is_cuckoo_hash_, hash_idx_.   *)
(***************************************************************************)
nr_dram_cache_ == ChamoDramLines
nr_cxl_cache_ == ChamoDramLines * ChamoRatio
dram_ratio_ == nr_cxl_cache_ \div nr_dram_cache_
ChamoCols == 0..(nr_dram_cache_ - 1)
ChamoLevels == 0..(dram_ratio_ - 1)

InitChamo ==
    [nr_map_limit_ |-> 1,
     hash_metric_ |-> [nr_touched_cnt_ |-> 0, nr_cuckoo_cnt_ |-> 0,
                       nr_period_hash_change_cnt_ |-> 0, nr_period_access_cnt_ |-> 0,
                       nr_period_newly_cache_cnt_ |-> 0],
     dram_overflow_rank_ |-> [c \in ChamoCols |-> 0],
     dram_base_rank_ |-> [l \in ChamoLevels |-> [c \in ChamoCols |-> 0]],
     dram_self_contain_rank_ |-> [c \in ChamoCols |-> 0],
     access_bit_map_ |-> [l \in ChamoLevels |-> [c \in ChamoCols |-> FALSE]],
     is_cuckoo_hash_ |-> [l \in ChamoLevels |-> [c \in ChamoCols |-> FALSE]],
     hash_idx_ |-> [l \in ChamoLevels |-> [c \in ChamoCols |-> 255]]]

\* CHAMOScheme::_GetColCap
GetColCap(s, dram_cache_idx) ==
    Cardinality({l \in ChamoLevels : s.chamo.access_bit_map_[l][dram_cache_idx]})

\* CHAMOScheme::_GetBaseRank, its value when no assert fails
GetBaseRank(s, dram_cache_idx, target_level_idx) ==
    1 + Cardinality({l \in ChamoLevels :
                        l < target_level_idx /\ s.chamo.access_bit_map_[l][dram_cache_idx]})

\* the asserts of _GetBaseRank
BaseRankAsserts(s, dram_cache_idx, target_level_idx) ==
    /\ target_level_idx < dram_ratio_
    /\ s.chamo.access_bit_map_[target_level_idx][dram_cache_idx]
    /\ GetBaseRank(s, dram_cache_idx, target_level_idx) <= dram_ratio_
    /\ GetColCap(s, dram_cache_idx) >= GetBaseRank(s, dram_cache_idx, target_level_idx)

\* the arithmetic and the two asserts of CHAMOScheme::_UpdateMapLimit for a
\* cuckoo count and a geometry
MapLimit(nr_cuckoo_cnt, nr_dram_cache, dram_ratio) ==
    LET raw == ((nr_cuckoo_cnt * 100) \div LoadRatio + nr_dram_cache - 1) \div nr_dram_cache
        lim == Max(1, Min(dram_ratio, raw))
    IN [nr_map_limit_ |-> lim, passed |-> raw <= dram_ratio + 1 /\ lim < dram_ratio]

\* CHAMOScheme::_UpdateMapLimit
UpdateMapLimit(s) ==
    LET r == MapLimit(s.chamo.hash_metric_.nr_cuckoo_cnt_, nr_dram_cache_, dram_ratio_)
    IN IF r.passed
       THEN [s EXCEPT !.chamo.nr_map_limit_ = r.nr_map_limit_]
       ELSE Fail([s EXCEPT !.chamo.nr_map_limit_ = r.nr_map_limit_])

\* _HashIdxToAddr with a fallback to hash 2 that clears the flag and keeps the count
HashIdxToAddrKeepingCount(s, line_addr_in_level, level_idx, hash_idx) ==
    LET was == s.chamo.is_cuckoo_hash_[level_idx][line_addr_in_level]
        target_addr ==
            IF hash_idx \in {0, 1}
            THEN NextLineHash(line_addr_in_level, hash_idx, nr_dram_cache_)
            ELSE U64Mod(XXHash(line_addr_in_level + level_idx * nr_dram_cache_), nr_dram_cache_)
        Cuckoo(x) ==
            IF hash_idx \in {0, 1}
            THEN IF ~was
                 THEN [x EXCEPT !.chamo.is_cuckoo_hash_[level_idx][line_addr_in_level] = TRUE,
                                !.chamo.hash_metric_.nr_cuckoo_cnt_ = @ + 1]
                 ELSE x
            ELSE IF was
                 THEN [x EXCEPT !.chamo.is_cuckoo_hash_[level_idx][line_addr_in_level] = FALSE]
                 ELSE x
        Check(x) ==
            IF (hash_idx = 2 /\ line_addr_in_level + level_idx * nr_dram_cache_ >= nr_cxl_cache_)
               \/ x.chamo.hash_metric_.nr_cuckoo_cnt_ > x.chamo.hash_metric_.nr_touched_cnt_
            THEN Fail(x)
            ELSE x
        Record(x) ==
            IF x.chamo.hash_idx_[level_idx][line_addr_in_level] # hash_idx
            THEN [x EXCEPT !.chamo.hash_metric_.nr_period_hash_change_cnt_ = @ + 1,
                           !.chamo.hash_idx_[level_idx][line_addr_in_level] = hash_idx]
            ELSE x
        Answer(x) == IF x.abort THEN x ELSE [Record(x) EXCEPT !.target = target_addr]
    IN Answer(Check(Cuckoo(s)))

\* CHAMOScheme::_HashIdxToAddr; the address is left in s.target
HashIdxToAddr(s, line_addr_in_level, level_idx, hash_idx) ==
    LET was == s.chamo.is_cuckoo_hash_[level_idx][line_addr_in_level]
        target_addr ==
            IF hash_idx \in {0, 1}
            THEN NextLineHash(line_addr_in_level, hash_idx, nr_dram_cache_)
            ELSE U64Mod(XXHash(line_addr_in_level + level_idx * nr_dram_cache_), nr_dram_cache_)
        Cuckoo(x) ==
            IF hash_idx \in {0, 1}
            THEN IF ~was
                 THEN [x EXCEPT !.chamo.is_cuckoo_hash_[level_idx][line_addr_in_level] = TRUE,
                                !.chamo.hash_metric_.nr_cuckoo_cnt_ = @ + 1]
                 ELSE x
            ELSE IF was
                 THEN [x EXCEPT !.chamo.is_cuckoo_hash_[level_idx][line_addr_in_level] = FALSE,
                                !.chamo.hash_metric_.nr_cuckoo_cnt_ = @ - 1]
                 ELSE x
        Check(x) ==
            IF (hash_idx = 2 /\ line_addr_in_level + level_idx * nr_dram_cache_ >= nr_cxl_cache_)
               \/ x.chamo.hash_metric_.nr_cuckoo_cnt_ > x.chamo.hash_metric_.nr_touched_cnt_
            THEN Fail(x)
            ELSE x
        Record(x) ==
            IF x.chamo.hash_idx_[level_idx][line_addr_in_level] # hash_idx
            THEN [x EXCEPT !.chamo.hash_metric_.nr_period_hash_change_cnt_ = @ + 1,
                           !.chamo.hash_idx_[level_idx][line_addr_in_level] = hash_idx]
            ELSE x
        Answer(x) == IF x.abort THEN x ELSE [Record(x) EXCEPT !.target = target_addr]
    IN Answer(Check(Cuckoo(s)))

\* CHAMOScheme::_RankToAddr
RankToAddr(s, base_rank, line_addr_in_level, level_idx) ==
    LET next_col_idx == (line_addr_in_level + 1) % nr_dram_cache_
        over_next == s.chamo.dram_overflow_rank_[next_col_idx]
        self == s.chamo.dram_self_contain_rank_[line_addr_in_level]
        over_here == s.chamo.dram_overflow_rank_[line_addr_in_level]
    IN IF base_rank <= over_next
       THEN IF base_rank <= s.chamo.nr_map_limit_
            THEN HashIdxToAddr(s, line_addr_in_level, level_idx, 1)
            ELSE Fail(s)
       ELSE IF base_rank - over_next <= self
       THEN IF (base_rank - over_next) + over_here <= s.chamo.nr_map_limit_
            THEN HashIdxToAddr(s, line_addr_in_level, level_idx, 0)
            ELSE Fail(s)
       ELSE HashIdxToAddr(s, line_addr_in_level, level_idx, 2)

\* CHAMOScheme::CalculateRankToAddr (with the asserts of _GetOverflowRank and
\* _GetSelfContainRank)
CalculateRankToAddr(s, dram_cache_idx, target_level_idx) ==
    LET Ranked(a) ==
            IF a.abort THEN a
            ELSE IF ~BaseRankAsserts(a, dram_cache_idx, target_level_idx)
                    \/ a.chamo.dram_overflow_rank_[dram_cache_idx] > a.chamo.nr_map_limit_
                    \/ a.chamo.dram_self_contain_rank_[dram_cache_idx] > a.chamo.nr_map_limit_
            THEN Fail(a)
            ELSE RankToAddr(a, GetBaseRank(a, dram_cache_idx, target_level_idx),
                            dram_cache_idx, target_level_idx)
    IN Ranked(UpdateMapLimit(s))

\* CHAMOScheme::UpdateMappingInfo
UpdateMappingInfo(s, dram_cache_idx, level_idx) ==
    LET next_col_idx == (dram_cache_idx + 1) % nr_dram_cache_
        c == s.chamo
        cuckoo(r) == [r EXCEPT !.chamo.is_cuckoo_hash_[level_idx][dram_cache_idx] = TRUE,
                               !.chamo.hash_metric_.nr_cuckoo_cnt_ = @ + 1]
    IN IF c.is_cuckoo_hash_[level_idx][dram_cache_idx] THEN Fail(s)
       ELSE IF c.dram_self_contain_rank_[next_col_idx] + c.dram_overflow_rank_[next_col_idx]
                  < c.nr_map_limit_
       THEN cuckoo([s EXCEPT !.chamo.dram_overflow_rank_[next_col_idx] = @ + 1])
       ELSE IF c.dram_self_contain_rank_[dram_cache_idx] + c.dram_overflow_rank_[dram_cache_idx]
                  < c.nr_map_limit_
       THEN cuckoo([s EXCEPT !.chamo.dram_self_contain_rank_[dram_cache_idx] = @ + 1])
       ELSE s

\* CHAMOScheme::Index; the DRAM line is left in s.target
Index(s, cache_addr) ==
    LET phy_line_addr == LCG_hash(cache_addr, nr_cxl_cache_)
        At(cxl_level, line_offset_in_level) ==
            LET Count(x) == [x EXCEPT !.chamo.hash_metric_.nr_period_access_cnt_ = @ + 1]
                Touch(a) ==
                    IF a.chamo.access_bit_map_[cxl_level][line_offset_in_level] THEN a
                    ELSE IF a.chamo.dram_base_rank_[cxl_level][line_offset_in_level] # 0
                            \/ GetColCap(a, line_offset_in_level) + 1 > dram_ratio_
                    THEN Fail(a)
                    ELSE UpdateMappingInfo(
                             [a EXCEPT !.chamo.dram_base_rank_[cxl_level][line_offset_in_level] =
                                           GetColCap(a, line_offset_in_level) + 1,
                                       !.chamo.access_bit_map_[cxl_level][line_offset_in_level] = TRUE,
                                       !.chamo.hash_metric_.nr_touched_cnt_ = @ + 1,
                                       !.chamo.hash_metric_.nr_period_newly_cache_cnt_ = @ + 1],
                             line_offset_in_level, cxl_level)
                Rank(c) ==
                    IF c.abort THEN c
                    ELSE CalculateRankToAddr(c, line_offset_in_level, cxl_level)
            IN Rank(Touch(Count(s)))
    IN At(phy_line_addr \div nr_dram_cache_, phy_line_addr % nr_dram_cache_)

\* eviction (write-back of a dirty victim, 4 bursts, mode 2) and fill of way 0
ChamoFill(s, set_num, tag, dirty) ==
    LET v == GetWay(s.cache, set_num, 0)
        a == IF v.valid /\ v.dirty
             THEN [Dev(s, "ext", "PUTX", 2, 4, v.tag) EXCEPT !.ext_bw_per_step = @ + 4]
             ELSE s
    IN [a EXCEPT !.cache = PutWay(@, set_num, 0,
                               [tag |-> tag, valid |-> TRUE, dirty |-> dirty])]

\* CHAMOScheme::access
ChamoAccess(sIn, req) ==
    LET type == IF IsLoad(req.type) THEN "LOAD" ELSE "STORE"
        address == req.lineAddr % nr_cxl_cache_
        tag == address
        At(s0, set_num) ==
            LET w0 == GetWay(s0.cache, set_num, 0)
                hit_way == IF w0.valid /\ w0.tag = tag THEN 0 ELSE num_ways
                \* LOAD
                Load(s) == McBw(DevC(s, "mc", "GETS", 0, 4, NoTag), 4)
                LoadHit(s) ==
                    Ready([s EXCEPT !.num_hit_per_step = @ + 1, !.numLoadHit = @ + 1])
                LoadFetch(s) ==
                    [ExtBw(Dev(s, "ext", "GETS", 1, 4, NoTag), 4)
                        EXCEPT !.num_miss_per_step = @ + 1, !.numLoadMiss = @ + 1,
                               !.ret = DevRet(s, s.cycle)]
                LoadMiss(s) == ChamoFill(LoadFetch(s), set_num, tag, FALSE)
                \* STORE
                Store(s) == McBw(DevC(s, "mc", "PUTX", 0, 4, NoTag), 4)
                StoreHit(s) ==
                    Ready([s EXCEPT !.num_hit_per_step = @ + 1, !.numStoreHit = @ + 1,
                                    !.cache = PutWay(@, set_num, 0, [w0 EXCEPT !.dirty = TRUE])])
                StoreCount(s) ==
                    Ready([s EXCEPT !.num_miss_per_step = @ + 1, !.numStoreMiss = @ + 1])
                StoreMiss(s) == ChamoFill(StoreCount(s), set_num, tag, TRUE)
            IN IF type = "LOAD"
               THEN IF hit_way < num_ways THEN LoadHit(Load(s0)) ELSE LoadMiss(Load(s0))
               ELSE IF hit_way < num_ways THEN StoreHit(Store(s0)) ELSE StoreMiss(Store(s0))
        \* mc_address = Index(address), then set_num = Index(address)
        Again(s) ==
            IF s.abort THEN s
            ELSE IF s.target >= nr_dram_cache_ THEN Fail(s)
            ELSE Index(s, address)
        Data(s) == IF s.abort THEN s ELSE At(s, s.target)
    IN Data(Again(Index(sIn, address)))

ChamoPeriod(s) == UngatedPeriod(s)

(***************************************************************************)
(* Dispatch on the configured scheme (virtual CacheScheme::access/period). *)
(***************************************************************************)
SchemeAccess(s, req, pol) ==
    CASE scheme = "AlloyCache" -> AlloyAccess(s, req)
      [] scheme = "UnisonCache" -> UnisonAccess(s, req, pol)
      [] scheme = "BansheeCache" -> BansheeAccess(s, req, pol)
      [] scheme = "NDC" -> NdcAccess(s, req, pol)
      [] scheme = "CacheOnly" -> CacheOnlyAccess(s, req)
      [] scheme = "IdealBalanced" -> IdealBalancedAccess(s, req)
      [] scheme = "IdealFully" -> IdealFullyAccess(s, req)
      [] scheme = "IdealHotness" -> IdealHotnessAccess(s, req)
      [] scheme = "CHAMO" -> ChamoAccess(s, req)
      [] OTHER -> s

SchemePeriod(s) ==
    CASE scheme = "AlloyCache" -> AlloyPeriod(s)
      [] scheme = "UnisonCache" -> UnisonPeriod(s)
      [] scheme = "BansheeCache" -> BansheePeriod(s)
      [] scheme = "NDC" -> NdcPeriod(s)
      [] scheme = "CacheOnly" -> CacheOnlyPeriod(s)
      [] scheme = "IdealBalanced" -> IdealBalancedPeriod(s)
      [] scheme = "IdealFully" -> IdealFullyPeriod(s)
      [] scheme = "IdealHotness" -> IdealHotnessPeriod(s)
      [] scheme = "CHAMO" -> ChamoPeriod(s)
      [] OTHER -> s

\* the valid entries of the tag array (of the page table for IdealHotness),
\* each as <<set, way, tag>>
ResidentSlots(s) ==
    IF scheme = "IdealHotness"
    THEN {<<0, i, s.page_table[i].tag>> : i \in {j \in HotPages : s.page_table[j].valid}}
    ELSE {<<xw[1], xw[2], s.cache[xw[1]][xw[2]].tag>> : xw \in
            {yw \in (DOMAIN s.cache) \X (0..(num_ways - 1)) : s.cache[yw[1]][yw[2]].valid}}

\* the entries holding the line (page) of tag t that an access to it used
SlotsOf(s, t) ==
    {sl \in ResidentSlots(s) : sl[3] = t /\ (scheme = "CHAMO" => sl[1] = s.target)}

\* the tag under which a scheme files a physical line address
TagOf(lineAddr) ==
    CASE scheme = "AlloyCache" -> lineAddr \div (granularity \div 64)
      [] scheme = "UnisonCache" ->
            (lineAddr % Pow2(ext_line_bits)) \div (granularity \div 64)
      [] scheme = "BansheeCache" -> lineAddr \div granularity
      [] scheme = "IdealHotness" -> lineAddr \div HotLinesPerPage
      [] scheme = "IdealBalanced" -> lineAddr % (Pow2(ext_line_bits) * 64)
      [] scheme = "CHAMO" -> lineAddr % nr_cxl_cache_
      [] OTHER -> lineAddr

(***************************************************************************)
(* MemoryController                                                        *)
(***************************************************************************)
\* MemoryController::mapPage.  The result is [st, pLineAddr, tlb, exist, ptr];
\* st = "hung" when the Random do-while can never leave (every page taken).
mapPage(vLineAddr, pgnumChoice) ==
    LET mask == Pow2(ext_line_bits)
        vpgnum == vLineAddr \div PageLines
        known == vpgnum \in DOMAIN mc_tlb
        free == (0..(mask - 1)) \ exist_pgnum
        pgnum == IF known THEN mc_tlb[vpgnum]
                 ELSE IF page_map_scheme = "Johnny" THEN johnny_ptr
                 ELSE pgnumChoice
        pLine == pgnum * PageLines + (vLineAddr % PageLines)
    IN IF page_map_scheme = "Identical"
       THEN [st |-> "ok", pLineAddr |-> vLineAddr % mask,
             tlb |-> mc_tlb, exist |-> exist_pgnum, ptr |-> johnny_ptr]
       ELSE IF ~known /\ page_map_scheme = "Random" /\ free = {}
       THEN [st |-> "hung", pLineAddr |-> 0,
             tlb |-> mc_tlb, exist |-> exist_pgnum, ptr |-> johnny_ptr]
       ELSE [st |-> "ok", pLineAddr |-> pLine,
             tlb |-> IF known THEN mc_tlb
                     ELSE [v \in DOMAIN mc_tlb \cup {vpgnum} |->
                              IF v = vpgnum THEN pgnum ELSE mc_tlb[v]],
             exist |-> IF known THEN exist_pgnum ELSE exist_pgnum \cup {pgnum},
             ptr |-> IF ~known /\ page_map_scheme = "Johnny"
                     THEN (johnny_ptr + 1) % mask ELSE johnny_ptr]

\* The pages the Random do-while can come out with.
RandomChoices ==
    IF page_map_scheme = "Random"
    THEN LET free == (0..(Pow2(ext_line_bits) - 1)) \ exist_pgnum
         IN IF free = {} THEN {0} ELSE free
    ELSE {0}

\* *req.state as set by the switch at the top of MemoryController::access
StateFor(type, noexcl) ==
    CASE type \in {"PUTS", "PUTX"} -> "I"
      [] type = "GETS" -> IF noexcl THEN "S" ELSE "E"
      [] type = "GETX" -> "M"

Cur ==
    [cache |-> cache, ds_index |-> ds_index, num_requests |-> num_requests,
     tlb |-> tlb, tag_buffer |-> tag_buffer, entry_occupied |-> entry_occupied,
     line_entries |-> line_entries, current_way |-> current_way,
     lru_array |-> lru_array, mru_way |-> mru_way, lru_way |-> lru_way,
     page_table |-> page_table, page_location |-> page_location,
     period_counter |-> period_counter, chamo |-> chamo, victim |-> 0, target |-> 0,
     num_hit_per_step |-> num_hit_per_step, num_miss_per_step |-> num_miss_per_step,
     mc_bw_per_step |-> mc_bw_per_step, ext_bw_per_step |-> ext_bw_per_step,
     numLoadHit |-> numLoadHit, numLoadMiss |-> numLoadMiss,
     numStoreHit |-> numStoreHit, numStoreMiss |-> numStoreMiss,
     calls |-> <<>>, periods |-> 0, bw_at_period |-> NoBw, tb_evict |-> NoEvict,
     cycle |-> 0, ret |-> 0, lat |-> 0, abort |-> FALSE,
     written |-> {}]

Commit(r) ==
    /\ cache' = r.cache
    /\ ds_index' = r.ds_index
    /\ num_requests' = r.num_requests
    /\ tlb' = r.tlb
    /\ tag_buffer' = r.tag_buffer
    /\ entry_occupied' = r.entry_occupied
    /\ line_entries' = r.line_entries
    /\ current_way' = r.current_way
    /\ lru_array' = r.lru_array
    /\ mru_way' = r.mru_way
    /\ lru_way' = r.lru_way
    /\ page_table' = r.page_table
    /\ page_location' = r.page_location
    /\ period_counter' = r.period_counter
    /\ chamo' = r.chamo
    /\ num_hit_per_step' = r.num_hit_per_step
    /\ num_miss_per_step' = r.num_miss_per_step
    /\ mc_bw_per_step' = r.mc_bw_per_step
    /\ ext_bw_per_step' = r.ext_bw_per_step
    /\ numLoadHit' = r.numLoadHit
    /\ numLoadMiss' = r.numLoadMiss
    /\ numStoreHit' = r.numStoreHit
    /\ numStoreMiss' = r.numStoreMiss

\* a PUTS that is counted as a request before it returns: C3 does not survive it
AccessPutsCounted(req) ==
    /\ status = "running"
    /\ last_req = NoReq
    /\ req.type = "PUTS"
    /\ last_req' = req
    /\ req_state' = StateFor(req.type, req.noexcl)
    /\ resp' = req.cycle
    /\ calls' = <<>>
    /\ periods' = 0
    /\ bw_at_period' = NoBw
    /\ tb_evict' = NoEvict
    /\ evicted' = {}
    /\ mc_num_requests' = mc_num_requests + 1
    /\ UNCHANGED <<cfgVars, hashVars, mc_tlb, exist_pgnum, johnny_ptr, status, schVars, stored, set_hist, conVars>>

\* MemoryController::access for a PUTS: the early return before the lock.
AccessPuts(req) ==
    /\ status = "running"
    /\ last_req = NoReq
    /\ req.type = "PUTS"
    /\ last_req' = req
    /\ req_state' = StateFor(req.type, req.noexcl)
    /\ resp' = req.cycle
    /\ calls' = <<>>
    /\ periods' = 0
    /\ bw_at_period' = NoBw
    /\ tb_evict' = NoEvict
    /\ evicted' = {}
    /\ UNCHANGED <<cfgVars, hashVars, mcVars, schVars, stored, set_hist, conVars>>

\* History of the Alloy sets: an access to line a records a as the last line
\* of its set, and as the last cached line when the set is not below ds_index;
\* a period() that moves ds_index from ds_index to ds1 > ds_index flushes the
\* sets in between and with them their history.
NoHist == [line |-> NoTag, cached |-> NoTag]
AlloyHist(a, ds1) ==
    LET set == a % num_sets
        old == IF set \in DOMAIN set_hist THEN set_hist[set] ELSE NoHist
        new == [line |-> a, cached |-> IF set >= ds_index THEN a ELSE old.cached]
        Flushed(x) == ds1 > ds_index /\ x >= ds_index /\ x < ds1
    IN [x \in DOMAIN set_hist \cup {set} |->
           IF Flushed(x) THEN NoHist ELSE IF x = set THEN new ELSE set_hist[x]]

\* MemoryController::access for GETS / GETX / PUTX.
AccessReq(req, lat, pgnumChoice, pol) ==
    /\ status = "running"
    /\ last_req = NoReq
    /\ req.type # "PUTS"
    /\ LET m == mapPage(req.lineAddr, pgnumChoice)
           Enter(s) == [s EXCEPT !.cycle = req.cycle, !.ret = req.cycle, !.lat = lat]
           Serve(s) == SchemeAccess(s, [req EXCEPT !.lineAddr = m.pLineAddr], pol)
           \* the entries a PUTX has written and that have not been written back
           Written(s) ==
               [s EXCEPT !.written = IF req.type = "PUTX"
                                     THEN stored \cup SlotsOf(s, TagOf(m.pLineAddr))
                                     ELSE stored]
           Tick(s) ==
               IF ~s.abort /\ bw_balance /\ (mc_num_requests + 1) % step_length = 0
               THEN SchemePeriod(s) ELSE s
           Reply(s) ==
               IF s.abort
               THEN /\ status' = "aborted"
                    /\ UNCHANGED <<schVars, resp, calls, periods, stored, evicted, set_hist,
                                 bw_at_period, tb_evict>>
               ELSE /\ status' = status
                    /\ Commit(s)
                    /\ resp' = s.ret
                    /\ calls' = s.calls
                    /\ periods' = s.periods
                    /\ bw_at_period' = s.bw_at_period
                    /\ tb_evict' = s.tb_evict
                    /\ stored' = s.written \cap ResidentSlots(s)
                    /\ evicted' = {sl[3] : sl \in s.written \ ResidentSlots(s)}
                    /\ set_hist' = IF scheme = "AlloyCache"
                                   THEN AlloyHist(m.pLineAddr, s.ds_index)
                                   ELSE set_hist
       IN /\ last_req' = req
          /\ req_state' = StateFor(req.type, req.noexcl)
          /\ mc_num_requests' = mc_num_requests + 1
          /\ UNCHANGED <<cfgVars, hashVars, conVars>>
          /\ IF m.st = "hung"
             THEN /\ status' = "hung"
                  /\ UNCHANGED <<mc_tlb, exist_pgnum, johnny_ptr, schVars,
                                 resp, calls, periods, stored, evicted, set_hist,
                                 bw_at_period, tb_evict>>
             ELSE /\ mc_tlb' = m.tlb
                  /\ exist_pgnum' = m.exist
                  /\ johnny_ptr' = m.ptr
                  /\ Reply(Tick(Written(Serve(Enter(Cur)))))

\* The caller takes the reply; the controller is ready for the next request.
Return ==
    /\ last_req # NoReq
    /\ last_req' = NoReq
    /\ resp' = 0
    /\ req_state' = "I"
    /\ calls' = <<>>
    /\ periods' = 0
    /\ bw_at_period' = NoBw
    /\ tb_evict' = NoEvict
    /\ evicted' = {}
    /\ UNCHANGED <<cfgVars, hashVars, mcVars, schVars, stored, set_hist, conVars>>

(***************************************************************************)
(* The general specification: every scheme, identical page map, a handful  *)
(* of lines, all request types.                                            *)
(***************************************************************************)
ExtLineBits == 20

\* two lines (pages) that contend for one set
Addrs ==
    CASE scheme = "AlloyCache" -> {0, NumSets}
      [] scheme = "UnisonCache" -> {0, 64 * NumSets}
      [] scheme = "BansheeCache" -> {0, 4096 * NumSets}
      [] scheme \in {"NDC", "IdealBalanced", "IdealFully"} -> {0, 1, 2}
      [] scheme = "IdealHotness" -> {0, 2, 4}
      [] scheme = "CHAMO" -> {0, ChamoDramLines, 2 * ChamoDramLines}
      [] OTHER -> {0, 1}

Cycles == {0, 7}

Requests(addrs) ==
    {r \in [lineAddr : addrs, type : ReqTypes, cycle : Cycles, noexcl : BOOLEAN] :
        r.noexcl => r.type = "GETS"}

Pols ==
    IF scheme \in {"UnisonCache", "BansheeCache"}
    THEN {p \in PolicyChoices : p.counter => ~sram_tag}
    ELSE [way : {0}, counter : {FALSE}, rand : 0..(num_ways - 1)]

InitScheme ==
    /\ cache = <<>>
    /\ ds_index = 0
    /\ num_requests = 0
    /\ tlb = <<>>
    /\ tag_buffer = InitTagBuffer
    /\ entry_occupied = 0
    /\ line_entries = <<>>
    /\ current_way = 0
    /\ lru_array = InitLruArray(num_ways)
    /\ mru_way = 0
    /\ lru_way = num_ways - 1
    /\ page_table = InitPageTable
    /\ page_location = <<>>
    /\ period_counter = 0
    /\ chamo = InitChamo
    /\ num_hit_per_step = 0
    /\ num_miss_per_step = 0
    /\ mc_bw_per_step = 0
    /\ ext_bw_per_step = 0
    /\ numLoadHit = 0
    /\ numLoadMiss = 0
    /\ numStoreHit = 0
    /\ numStoreMiss = 0

InitController ==
    /\ mc_num_requests = 0
    /\ mc_tlb = <<>>
    /\ exist_pgnum = {}
    /\ johnny_ptr = 0
    /\ status = "running"

\* One caller at a time: the controller is mem-0 with sys.mem.enableTrace set,
\* so that the constructor has run futex_init, and no thread is inside access().
\* no hash object is under test
NoHash == [obj |-> "none"]

InitHashes ==
    /\ map_limit = NoHash
    /\ lcg = NoHash
    /\ cuckoo_hash = NoHash

InitSingle ==
    /\ collect_trace = TRUE
    /\ lock = 0
    /\ thr = [t \in Threads |-> Idle]

InitObs ==
    /\ last_req = NoReq
    /\ resp = 0
    /\ req_state = "I"
    /\ calls = <<>>
    /\ periods = 0
    /\ bw_at_period = NoBw
    /\ tb_evict = NoEvict
    /\ InitHashes
    /\ stored = {}
    /\ evicted = {}
    /\ set_hist = <<>>
    /\ InitSingle

Init ==
    /\ scheme \in Schemes
    /\ bw_balance \in BOOLEAN
    /\ sram_tag \in (IF scheme \in {"AlloyCache", "UnisonCache", "BansheeCache"}
                     THEN BOOLEAN ELSE {FALSE})
    /\ page_map_scheme = "Identical"
    /\ ext_line_bits = ExtLineBits
    /\ InitController
    /\ InitScheme
    /\ InitObs

Puts ==
    /\ mc_num_requests < MaxRequests
    /\ \E req \in Requests(Addrs) : AccessPuts(req)

Access ==
    /\ mc_num_requests < MaxRequests
    /\ \E req \in Requests(Addrs), lat \in 0..MaxLat : 
           \E pol \in Pols : AccessReq(req, lat, 0, pol)

Next == Puts \/ Access \/ Return

Spec == Init /\ [][Next]_vars

(***************************************************************************)
(* The long run: every scheme, one line that is first read or written and  *)
(* then written over and over, so that the bandwidth window fills with     *)
(* MC-DRAM traffic and the rebalance keeps moving ds_index.                *)
(***************************************************************************)
LongAddr == IF scheme = "AlloyCache" THEN NumSets - 1 ELSE 0

LongTypes == IF mc_num_requests = 0 THEN {"GETS", "PUTX"} ELSE {"PUTX"}

FixedPol == [way |-> 0, counter |-> FALSE, rand |-> 0]

InitLong ==
    /\ scheme \in Schemes
    /\ bw_balance \in BOOLEAN
    /\ sram_tag = FALSE
    /\ page_map_scheme = "Identical"
    /\ ext_line_bits = ExtLineBits
    /\ InitController
    /\ InitScheme
    /\ InitObs

LongAccess ==
    /\ mc_num_requests < MaxLongRequests
    /\ \E type \in LongTypes :
          AccessReq([lineAddr |-> LongAddr, type |-> type, cycle |-> 0, noexcl |-> FALSE],
                    0, 0, FixedPol)

NextLong == LongAccess \/ Return

SpecLong == InitLong /\ [][NextLong]_vars

(***************************************************************************)
(* The page mapper: Johnny and Random modes over an external memory of     *)
(* 2^MapLineBits page numbers, touched by one virtual page more than that. *)
(***************************************************************************)
MapPages == 0..Pow2(MapLineBits)

InitMap ==
    /\ scheme = "CacheOnly"
    /\ bw_balance = FALSE
    /\ sram_tag = FALSE
    /\ page_map_scheme \in {"Johnny", "Random"}
    /\ ext_line_bits = MapLineBits
    /\ InitController
    /\ InitScheme
    /\ InitObs

MapAccess ==
    /\ mc_num_requests < Pow2(MapLineBits) + 1
    /\ \E vpgnum \in MapPages, pgnum \in RandomChoices :
          AccessReq([lineAddr |-> vpgnum * PageLines, type |-> "GETS", cycle |-> 0,
                     noexcl |-> FALSE], 0, pgnum, FixedPol)

NextMap == MapAccess \/ Return

SpecMap == InitMap /\ [][NextMap]_vars

(***************************************************************************)
(* The tag buffer on its own: any sequence of insert() and                 *)
(* clearTagBuffer() calls.                                                 *)
(***************************************************************************)
TBTags == 0..TBMaxTag

InitTB ==
    /\ scheme = "BansheeCache"
    /\ bw_balance = FALSE
    /\ sram_tag = FALSE
    /\ page_map_scheme = "Identical"
    /\ ext_line_bits = ExtLineBits
    /\ InitController
    /\ InitScheme
    /\ InitObs

TBFrame ==
    UNCHANGED <<cfgVars, hashVars, mc_num_requests, mc_tlb, exist_pgnum, johnny_ptr, obsVars, conVars,
                cache, ds_index, num_requests, tlb, line_entries, current_way, lru_array,
                mru_way, lru_way, page_table, page_location, period_counter, chamo,
                num_hit_per_step, num_miss_per_step, mc_bw_per_step, ext_bw_per_step,
                numLoadHit, numLoadMiss, numStoreHit, numStoreMiss>>

TBInsert ==
    /\ status = "running"
    /\ \E tag \in TBTags, remap \in BOOLEAN :
          LET r == insert(Cur, tag, remap)
          IN IF r.abort
             THEN status' = "aborted" /\ UNCHANGED <<tag_buffer, entry_occupied>>
             ELSE /\ status' = status
                  /\ tag_buffer' = r.tag_buffer
                  /\ entry_occupied' = r.entry_occupied
    /\ TBFrame

TBClear ==
    /\ status = "running"
    /\ tag_buffer' = clearTagBuffer(Cur).tag_buffer
    /\ entry_occupied' = clearTagBuffer(Cur).entry_occupied
    /\ status' = status
    /\ TBFrame

NextTB == TBInsert \/ TBClear

SpecTB == InitTB /\ [][NextTB]_vars

(***************************************************************************)
(* CHAMO alone: loads of a handful of lines of the external memory, enough *)
(* of them for the cuckoo count to raise nr_map_limit_ and lower it again. *)
(***************************************************************************)
MaxChamoRequests == 7

ChamoAddrs == {0, 1, 2, 6, 9, 14}

InitChamoRun ==
    /\ scheme = "CHAMO"
    /\ bw_balance = FALSE
    /\ sram_tag = FALSE
    /\ page_map_scheme = "Identical"
    /\ ext_line_bits = ExtLineBits
    /\ InitController
    /\ InitScheme
    /\ InitObs

ChamoLoad ==
    /\ mc_num_requests < MaxChamoRequests
    /\ \E a \in ChamoAddrs :
          AccessReq([lineAddr |-> a, type |-> "GETS", cycle |-> 0, noexcl |-> FALSE],
                    0, 0, FixedPol)

NextChamo == ChamoLoad \/ Return

SpecChamo == InitChamoRun /\ [][NextChamo]_vars

(***************************************************************************)
(* IdealFully alone: loads of one line more than there are ways, so that   *)
(* hits move ways inside the ring and misses take the LRU way.             *)
(***************************************************************************)
MaxFullyRequests == 6

FullyAddrs == 0..FullyWays

InitFully ==
    /\ scheme = "IdealFully"
    /\ bw_balance = FALSE
    /\ sram_tag = FALSE
    /\ page_map_scheme = "Identical"
    /\ ext_line_bits = ExtLineBits
    /\ InitController
    /\ InitScheme
    /\ InitObs

FullyLoad ==
    /\ mc_num_requests < MaxFullyRequests
    /\ \E a \in FullyAddrs :
          AccessReq([lineAddr |-> a, type |-> "GETS", cycle |-> 0, noexcl |-> FALSE],
                    0, 0, FixedPol)

NextFully == FullyLoad \/ Return

SpecFully == InitFully /\ [][NextFully]_vars

(***************************************************************************)
(* Several threads call access() on one controller.  A call is the state   *)
(* switch and the PUTS return, futex_lock, the locked section (read of the *)
(* controller's and the scheme's fields, then the write of the results),   *)
(* futex_unlock.  The lock word is zero after futex_init, which the        *)
(* constructor calls only when tracing is on for mem-0; otherwise the word *)
(* is whatever the allocation left there.                                  *)
(***************************************************************************)
MaxConRequests == 3
ConAddrs == {0, 1}

\* futex_init, futex_lock, futex_unlock on the lock word
futex_init(l) == 0
futex_lockable(l) == l = 0
futex_lock(l) == 1
futex_unlock(l) == 0

InitConc ==
    /\ scheme \in {"AlloyCache", "IdealFully", "CacheOnly"}
    /\ bw_balance \in BOOLEAN
    /\ sram_tag = FALSE
    /\ page_map_scheme = "Identical"
    /\ ext_line_bits = ExtLineBits
    /\ InitController
    /\ InitScheme
    /\ last_req = NoReq
    /\ resp = 0
    /\ req_state = "I"
    /\ calls = <<>>
    /\ periods = 0
    /\ bw_at_period = NoBw
    /\ tb_evict = NoEvict
    /\ InitHashes
    /\ stored = {}
    /\ evicted = {}
    /\ set_hist = <<>>
    /\ collect_trace \in BOOLEAN
    /\ lock \in (IF collect_trace THEN {futex_init(0)} ELSE {0, 1})
    /\ thr = [t \in Threads |-> Idle]

InFlight == {t \in Threads : thr[t].pc \in {"wait", "crit", "body"}}
InSection == {t \in Threads : thr[t].pc \in {"crit", "body", "unlock"}}

ConFrame == UNCHANGED <<cfgVars, hashVars, mcVars, schVars, obsVars>>

\* the state switch; a PUTS returns here, any other request goes for the lock
ConBegin(t, req) ==
    /\ status = "running"
    /\ thr[t].pc = "idle"
    /\ mc_num_requests + Cardinality(InFlight) < MaxConRequests
    /\ thr' = [thr EXCEPT ![t] = IF req.type = "PUTS"
                                 THEN [Idle EXCEPT !.ret = req.cycle, !.req = req]
                                 ELSE [Idle EXCEPT !.pc = "wait", !.req = req]]
    /\ UNCHANGED lock
    /\ ConFrame

ConLock(t) ==
    /\ thr[t].pc = "wait"
    /\ futex_lockable(lock)
    /\ lock' = futex_lock(lock)
    /\ thr' = [thr EXCEPT ![t].pc = "crit"]
    /\ ConFrame

\* the locked section reads _num_requests, the page map and the scheme
ConRead(t) ==
    /\ thr[t].pc = "crit"
    /\ thr' = [thr EXCEPT ![t].pc = "body",
                          ![t].snap = [n |-> mc_num_requests,
                                       m |-> mapPage(thr[t].req.lineAddr, 0),
                                       s |-> Cur]]
    /\ UNCHANGED lock
    /\ ConFrame

\* scheme->access and, on a step boundary, scheme->period, on what was read
ConServe(snap, req) ==
    LET Enter(s) == [s EXCEPT !.cycle = req.cycle, !.ret = req.cycle, !.lat = 0]
        Serve(s) == SchemeAccess(s, [req EXCEPT !.lineAddr = snap.m.pLineAddr], FixedPol)
        Tick(s) == IF ~s.abort /\ bw_balance /\ (snap.n + 1) % step_length = 0
                   THEN SchemePeriod(s) ELSE s
    IN Tick(Serve(Enter(snap.s)))

\* ... and writes the results back
ConWrite(t) ==
    /\ thr[t].pc = "body"
    /\ LET r == ConServe(thr[t].snap, thr[t].req)
       IN IF r.abort
          THEN /\ status' = "aborted"
               /\ UNCHANGED <<schVars, mc_num_requests, mc_tlb, exist_pgnum, johnny_ptr, thr>>
          ELSE /\ status' = status
               /\ Commit(r)
               /\ mc_num_requests' = thr[t].snap.n + 1
               /\ mc_tlb' = thr[t].snap.m.tlb
               /\ exist_pgnum' = thr[t].snap.m.exist
               /\ johnny_ptr' = thr[t].snap.m.ptr
               /\ thr' = [thr EXCEPT ![t].pc = "unlock", ![t].ret = r.ret]
    /\ UNCHANGED <<cfgVars, hashVars, obsVars, lock>>

ConUnlock(t) ==
    /\ thr[t].pc = "unlock"
    /\ lock' = futex_unlock(lock)
    /\ thr' = [thr EXCEPT ![t] = [Idle EXCEPT !.ret = thr[t].ret, !.req = thr[t].req]]
    /\ ConFrame

ConCall == \E t \in Threads, a \in ConAddrs, ty \in {"GETS", "PUTX", "PUTS"} :
               ConBegin(t, [lineAddr |-> a, type |-> ty, cycle |-> 0, noexcl |-> FALSE])
ConAcquire == \E t \in Threads : ConLock(t)
ConReads == \E t \in Threads : ConRead(t)
ConWrites == \E t \in Threads : ConWrite(t)
ConRelease == \E t \in Threads : ConUnlock(t)

NextConc == ConCall \/ ConAcquire \/ ConReads \/ ConWrites \/ ConRelease

SpecConc == InitConc /\ [][NextConc]_vars


(***************************************************************************)
(* Runs under every scheme and page-map mode in which the two generators   *)
(* the code draws from are free: std::rand() in the NDC victim choice, and *)
(* lrand48_r on the buffer seeded with the controller's own address in the *)
(* Random page map.                                                        *)
(***************************************************************************)
MaxDetRequests == 3

InitDet ==
    /\ scheme \in Schemes
    /\ bw_balance = FALSE
    /\ sram_tag = FALSE
    /\ page_map_scheme \in (IF scheme = "CacheOnly"
                            THEN {"Identical", "Johnny", "Random"} ELSE {"Identical"})
    /\ ext_line_bits = (IF page_map_scheme = "Identical" THEN ExtLineBits ELSE MapLineBits)
    /\ InitController
    /\ InitScheme
    /\ InitObs

DetReqs ==
    IF page_map_scheme = "Identical"
    THEN [lineAddr : Addrs, type : {"GETS", "PUTX"}, cycle : {0}, noexcl : {FALSE}]
    ELSE [lineAddr : {v * PageLines : v \in MapPages}, type : {"GETS"}, cycle : {0},
          noexcl : {FALSE}]

\* the values std::rand() % candidates.size() can take
DetRands == IF scheme = "NDC" THEN 0..(num_ways - 1) ELSE {0}

DetAccess ==
    /\ mc_num_requests < MaxDetRequests
    /\ \E req \in DetReqs, pgnum \in RandomChoices, rand \in DetRands :
          AccessReq(req, 0, pgnum, [FixedPol EXCEPT !.rand = rand])

NextDet == DetAccess \/ Return

SpecDet == InitDet /\ [][NextDet]_vars

\* what access(req) returns and leaves behind when the generators yield
\* pgnum and rand: the response cycle, the page map, the tag array, the counters
DetOutcome(req, pgnum, rand) ==
    LET m == mapPage(req.lineAddr, pgnum)
        r == SchemeAccess([Cur EXCEPT !.cycle = req.cycle, !.ret = req.cycle, !.lat = 0],
                          [req EXCEPT !.lineAddr = m.pLineAddr],
                          [FixedPol EXCEPT !.rand = rand])
    IN [st |-> m.st, tlb |-> m.tlb, ret |-> r.ret, cache |-> r.cache,
        counters |-> <<r.numLoadHit, r.numLoadMiss, r.numStoreHit, r.numStoreMiss>>]

(***************************************************************************)
(* The constructor's choice of the scheme from sys.mem.cache_scheme,       *)
(* followed by requests to the controller it has built.                    *)
(***************************************************************************)
MaxCtorRequests == 2

\* the names the spec lists for sys.mem.cache_scheme
SpecSchemeNames ==
    {"NoCache", "CacheOnly", "AlloyCache", "UnisonCache", "BansheeCache", "NDC", "CHAMO",
     "IdealBalanced", "IdealAssociative", "IdealFully", "IdealHotness"}

\* the names the if / else-if chain of the constructor compares with
CtorSchemeNames ==
    {"AlloyCache", "UnisonCache", "BansheeCache", "NoCache", "CacheOnly", "CopyCache",
     "NDC", "IdealBalanced", "IdealAssociative", "IdealFully", "CHAMO"}

ConfigSchemeNames == SpecSchemeNames \cup CtorSchemeNames \cup {"", "alloycache"}

InitCtor ==
    /\ scheme \in ConfigSchemeNames
    /\ bw_balance = FALSE
    /\ sram_tag = FALSE
    /\ page_map_scheme = "Identical"
    /\ ext_line_bits = ExtLineBits
    /\ mc_num_requests = 0
    /\ mc_tlb = <<>>
    /\ exist_pgnum = {}
    /\ johnny_ptr = 0
    /\ status = "unbuilt"
    /\ InitScheme
    /\ InitObs

\* MemoryController::MemoryController: the scheme is instantiated, or panic
Construct ==
    /\ status = "unbuilt"
    /\ status' = IF scheme \in CtorSchemeNames THEN "running" ELSE "aborted"
    /\ UNCHANGED <<cfgVars, hashVars, mc_num_requests, mc_tlb, exist_pgnum, johnny_ptr,
                   schVars, obsVars, conVars>>

CtorAccess ==
    /\ scheme \in Schemes
    /\ mc_num_requests < MaxCtorRequests
    /\ \E req \in Requests(Addrs) : req.type # "PUTS" /\ AccessReq(req, 0, 0, FixedPol)

NextCtor == Construct \/ CtorAccess \/ Return

SpecCtor == InitCtor /\ [][NextCtor]_vars

(***************************************************************************)
(* NDC on line addresses that differ below and above bit 6, so that every  *)
(* set is reached through phyAddr2cacheAddr and getSetNum.                 *)
(***************************************************************************)
MaxCodecRequests == 3
CodecAddrs == {0, 2, 4, 128, 256, 384}

InitCodec ==
    /\ scheme = "NDC"
    /\ bw_balance = FALSE
    /\ sram_tag = FALSE
    /\ page_map_scheme = "Identical"
    /\ ext_line_bits = ExtLineBits
    /\ InitController
    /\ InitScheme
    /\ InitObs

CodecAccess ==
    /\ mc_num_requests < MaxCodecRequests
    /\ \E a \in CodecAddrs, ty \in {"GETS", "PUTX"}, rand \in 0..(NdcWays - 1) :
          AccessReq([lineAddr |-> a, type |-> ty, cycle |-> 0, noexcl |-> FALSE],
                    0, 0, [FixedPol EXCEPT !.rand = rand])

NextCodec == CodecAccess \/ Return

SpecCodec == InitCodec /\ [][NextCodec]_vars

(***************************************************************************)
(* Alloy with the bandwidth balance on: loads and stores to two lines of   *)
(* set 0 and one line of the last set, long enough for period() to move    *)
(* ds_index above set 0.                                                   *)
(***************************************************************************)
MaxAlloyRequests == 7
AlloyAddrs == {0, NumSets, NumSets - 1}

InitAlloy ==
    /\ scheme = "AlloyCache"
    /\ bw_balance = TRUE
    /\ sram_tag \in BOOLEAN
    /\ page_map_scheme = "Identical"
    /\ ext_line_bits = ExtLineBits
    /\ InitController
    /\ InitScheme
    /\ InitObs

AlloyLoadStore ==
    /\ mc_num_requests < MaxAlloyRequests
    /\ \E a \in AlloyAddrs, ty \in {"GETS", "PUTX"} :
          AccessReq([lineAddr |-> a, type |-> ty, cycle |-> 0, noexcl |-> FALSE],
                    0, 0, FixedPol)

NextAlloy == AlloyLoadStore \/ Return

SpecAlloy == InitAlloy /\ [][NextAlloy]_vars

(***************************************************************************)
(* The tag buffer under evictions: load hits note their page, evictions    *)
(* enter two remaps, a high occupancy clears the buffer.  Pages are taken  *)
(* from enough tags to overfill a tag buffer set; an eviction names, of   *)
(* each set, the highest tag that is a remap or the lowest that is not.    *)
(***************************************************************************)
MaxEvictTag == TBNumSets * (TBNumWays + 2) - 1
EvictTags == 0..MaxEvictTag

IsRemap(buf, t) ==
    \E i \in TBWays : buf[t % TBNumSets][i].tag = t /\ buf[t % TBNumSets][i].remap

\* of every tag buffer set: its highest remap tag and its lowest tag that is
\* not a remap
EvictChoices ==
    {t \in EvictTags :
        LET same == {u \in EvictTags : u % TBNumSets = t % TBNumSets}
        IN IF IsRemap(tag_buffer, t)
           THEN \A u \in same : IsRemap(tag_buffer, u) => u <= t
           ELSE \A u \in same : u < t => IsRemap(tag_buffer, u)}

\* the pages whose load hits are noted
NoteTags == {1}

InitEvict ==
    /\ scheme = "BansheeCache"
    /\ bw_balance = FALSE
    /\ sram_tag = FALSE
    /\ page_map_scheme = "Identical"
    /\ ext_line_bits = ExtLineBits
    /\ InitController
    /\ InitScheme
    /\ InitObs

EvictFrame ==
    UNCHANGED <<cfgVars, hashVars, mc_num_requests, mc_tlb, exist_pgnum, johnny_ptr, conVars,
                cache, ds_index, num_requests, tlb, line_entries, current_way, lru_array,
                mru_way, lru_way, page_table, page_location, period_counter, chamo,
                num_hit_per_step, num_miss_per_step, mc_bw_per_step, ext_bw_per_step,
                numLoadHit, numLoadMiss, numStoreHit, numStoreMiss,
                last_req, resp, req_state, calls, periods, stored, evicted, set_hist,
                bw_at_period>>

EvictCommit(r) ==
    /\ status' = IF r.abort THEN "aborted" ELSE status
    /\ tag_buffer' = r.tag_buffer
    /\ entry_occupied' = r.entry_occupied
    /\ tb_evict' = r.tb_evict
    /\ EvictFrame

\* a load hit of a page
EvictNoteLoad ==
    /\ status = "running"
    /\ \E tag \in NoteTags : EvictCommit(BansheeNoteLoad(Cur, "LOAD", tag))

\* a miss that replaces a valid page
EvictReplace ==
    /\ status = "running"
    /\ \E tag \in EvictChoices, replaced_tag \in EvictChoices :
          /\ tag # replaced_tag
          /\ EvictCommit(BansheeRemap(Cur, tag, replaced_tag))

\* the occupancy test at the end of an access
EvictOccupancy ==
    /\ status = "running"
    /\ OccupancyHigh(Cur)
    /\ EvictCommit(clearTagBuffer(Cur))

NextEvict == EvictNoteLoad \/ EvictReplace \/ EvictOccupancy

SpecEvict == InitEvict /\ [][NextEvict]_vars

(***************************************************************************)
(* Banshee with the bandwidth balance on: pages are first touched in       *)
(* address order, more of them than 0.7 of the tag buffer holds, and page  *)
(* 0 is read again in between.                                             *)
(***************************************************************************)
MaxOccRequests == 18
MaxOccPage == (OccupancyTenths * TBNumWays * TBNumSets) \div 10 + 1

InitOcc ==
    /\ scheme = "BansheeCache"
    /\ bw_balance = TRUE
    /\ sram_tag = FALSE
    /\ page_map_scheme = "Identical"
    /\ ext_line_bits = ExtLineBits
    /\ InitController
    /\ InitScheme
    /\ InitObs

OccAccess ==
    /\ mc_num_requests < MaxOccRequests
    /\ \E page \in {0, Min(Cardinality(DOMAIN tlb), MaxOccPage)} :
          AccessReq([lineAddr |-> page * granularity, type |-> "GETS", cycle |-> 0,
                     noexcl |-> FALSE], 0, 0, FixedPol)

NextOcc == OccAccess \/ Return

SpecOcc == InitOcc /\ [][NextOcc]_vars

(***************************************************************************)
(* IdealBalanced alone: loads and stores of one line more than there are   *)
(* ways, long enough for a line to be evicted and to miss again.           *)
(***************************************************************************)
MaxBalancedRequests == 5

BalancedAddrs == 0..IdealWays

InitBalanced ==
    /\ scheme = "IdealBalanced"
    /\ bw_balance = FALSE
    /\ sram_tag = FALSE
    /\ page_map_scheme = "Identical"
    /\ ext_line_bits = ExtLineBits
    /\ InitController
    /\ InitScheme
    /\ InitObs

BalancedLoadStore ==
    /\ mc_num_requests < MaxBalancedRequests
    /\ \E a \in BalancedAddrs, ty \in {"GETS", "PUTX"} :
          AccessReq([lineAddr |-> a, type |-> ty, cycle |-> 0, noexcl |-> FALSE],
                    0, 0, FixedPol)

NextBalanced == BalancedLoadStore \/ Return

SpecBalanced == InitBalanced /\ [][NextBalanced]_vars

(***************************************************************************)
(* IdealHotness alone: loads and stores over one page more than the cache  *)
(* holds, long enough for the resident pages' frequencies to differ when a *)
(* page is evicted.                                                        *)
(***************************************************************************)
MaxHotRequests == 6

HotAddrs == {p * HotLinesPerPage : p \in 0..HotNumPages}

InitHot ==
    /\ scheme = "IdealHotness"
    /\ bw_balance = FALSE
    /\ sram_tag = FALSE
    /\ page_map_scheme = "Identical"
    /\ ext_line_bits = ExtLineBits
    /\ InitController
    /\ InitScheme
    /\ InitObs

HotLoadStore ==
    /\ mc_num_requests < MaxHotRequests
    /\ \E a \in HotAddrs, ty \in {"GETS", "PUTX"} :
          AccessReq([lineAddr |-> a, type |-> ty, cycle |-> 0, noexcl |-> FALSE],
                    0, 0, FixedPol)

NextHot == HotLoadStore \/ Return

SpecHot == InitHot /\ [][NextHot]_vars

(***************************************************************************)
(* CHAMOScheme::_UpdateMapLimit on its own: a scheme of nr_dram_cache_     *)
(* columns and dram_ratio_ levels, and the recomputation of nr_map_limit_  *)
(* that every Index call makes, for each cuckoo count the geometry allows. *)
(***************************************************************************)
MaxLimitCols == 4
MaxLimitRatio == 4

OtherVars == <<cfgVars, mcVars, schVars, obsVars, conVars>>

\* the variables of the controller, at rest under a hash object
InitAtRest ==
    /\ scheme = "CHAMO"
    /\ bw_balance = FALSE
    /\ sram_tag = FALSE
    /\ page_map_scheme = "Identical"
    /\ ext_line_bits = ExtLineBits
    /\ InitController
    /\ InitScheme
    /\ last_req = NoReq
    /\ resp = 0
    /\ req_state = "I"
    /\ calls = <<>>
    /\ periods = 0
    /\ bw_at_period = NoBw
    /\ tb_evict = NoEvict
    /\ stored = {}
    /\ evicted = {}
    /\ set_hist = <<>>
    /\ InitSingle

InitLimit ==
    /\ InitAtRest
    /\ \E cols \in 1..MaxLimitCols, ratio \in 1..MaxLimitRatio :
          map_limit = [obj |-> "CHAMOScheme", nr_dram_cache_ |-> cols, dram_ratio_ |-> ratio,
                       nr_cuckoo_cnt_ |-> 0, nr_map_limit_ |-> 1, calls |-> 0, abort |-> FALSE]
    /\ lcg = NoHash
    /\ cuckoo_hash = NoHash

\* one _UpdateMapLimit with the count at any value up to the number of entries
LimitUpdate ==
    /\ ~map_limit.abort
    /\ \E cnt \in 0..(map_limit.nr_dram_cache_ * map_limit.dram_ratio_) :
          LET r == MapLimit(cnt, map_limit.nr_dram_cache_, map_limit.dram_ratio_)
          IN map_limit' = [map_limit EXCEPT !.nr_cuckoo_cnt_ = cnt,
                                            !.nr_map_limit_ = r.nr_map_limit_,
                                            !.calls = 1,
                                            !.abort = ~r.passed]
    /\ UNCHANGED <<OtherVars, lcg, cuckoo_hash>>

NextLimit == LimitUpdate

SpecLimit == InitLimit /\ [][NextLimit]_vars

(***************************************************************************)
(* An LCGHash on its own: constructed for nr_bucket_ buckets, then         *)
(* LCG_hash of a key below nr_bucket_ and LCG_rev_hash of the result.      *)
(***************************************************************************)
MaxLcgBuckets == 32

InitLcg ==
    /\ InitAtRest
    /\ map_limit = NoHash
    /\ \E n \in 1..MaxLcgBuckets :
          lcg = [obj |-> "LCGHash", nr_bucket_ |-> n, pc |-> "constructed",
                 key |-> 0, hash_index |-> 0, bucket_idx |-> 0, rev_key |-> 0]
    /\ cuckoo_hash = NoHash

LcgHash ==
    /\ lcg.pc = "constructed"
    /\ \E key \in 0..(lcg.nr_bucket_ - 1), hash_index \in 0..1 :
          lcg' = [lcg EXCEPT !.pc = "hashed", !.key = key, !.hash_index = hash_index,
                             !.bucket_idx = LCGHash_LCG_hash(lcg.nr_bucket_, key, hash_index)]
    /\ UNCHANGED <<OtherVars, map_limit, cuckoo_hash>>

LcgRevHash ==
    /\ lcg.pc = "hashed"
    /\ lcg' = [lcg EXCEPT !.pc = "reversed",
                          !.rev_key = LCG_rev_hash(lcg.nr_bucket_, lcg.bucket_idx, lcg.hash_index)]
    /\ UNCHANGED <<OtherVars, map_limit, cuckoo_hash>>

NextLcg == LcgHash \/ LcgRevHash

SpecLcg == InitLcg /\ [][NextLcg]_vars

(***************************************************************************)
(* SpecCuckoo: a CuckooHash of CuckooBuckets buckets per hash assoc, built *)
(* by the seven-argument constructor with every bucket assoc that divides  *)
(* them and every hash assoc up to MaxCuckooHashAssoc, and asked for the   *)
(* target set of the addresses of CuckooKeys in every order.               *)
(***************************************************************************)
CuckooBuckets == 4
MaxCuckooBucketAssoc == 2
MaxCuckooHashAssoc == 2
CuckooLoadRatio == 50

InitCuckoo ==
    /\ InitAtRest
    /\ map_limit = NoHash
    /\ lcg = NoHash
    /\ \E bucket_assoc \in {b \in 1..MaxCuckooBucketAssoc : CuckooBuckets % b = 0},
          hash_assoc \in 1..MaxCuckooHashAssoc :
          cuckoo_hash = [obj |-> "CuckooHash",
                         begin_dram_set_idx_ |-> 0,
                         nr_set_per_page_ |-> CuckooBuckets \div bucket_assoc,
                         nr_bucket_ |-> CuckooBuckets,
                         hash_assoc_ |-> hash_assoc,
                         bucket_assoc_ |-> bucket_assoc,
                         cur_hash_assoc_limit_ |-> 1,
                         target_load_ratio_ |-> CuckooLoadRatio,
                         buckets_ |-> [h \in 0..(hash_assoc - 1) |->
                                         [b \in 0..(CuckooBuckets - 1) |-> NoCuckooEntry]],
                         index_metadata_ |-> << >>,
                         cuckoo_metric_ |-> [nr_cuckoo_map_ |-> 0, nr_direct_map_ |-> 0,
                                             nr_total_entry_ |-> 0, nr_kick_out_ |-> 0,
                                             cum_cuckoo_path_len_ |-> 0],
                         failed |-> "",
                         ret |-> 0]

\* CuckooHash::GetTargetSetIdx
GetTargetSetIdx ==
    /\ cuckoo_hash.failed = ""
    /\ \E phy_cache_addr \in CuckooKeys :
          cuckoo_hash' =
              TargetSetIdx(IF phy_cache_addr \in DOMAIN cuckoo_hash.index_metadata_
                           THEN cuckoo_hash
                           ELSE Insert(cuckoo_hash, phy_cache_addr),
                           phy_cache_addr)
    /\ UNCHANGED <<OtherVars, map_limit, lcg>>

NextCuckoo == GetTargetSetIdx

SpecCuckoo == InitCuckoo /\ [][NextCuckoo]_vars

(***************************************************************************)
(* Properties.                                                             *)
(***************************************************************************)
Ways == 0..(num_ways - 1)

\* C1: after any sequence of access() and period() calls, in every scheme, no
\* set of the tag array holds two valid ways with the same tag (and no two
\* valid entries of the IdealHotness page table hold the same page).
NoDuplicateTags ==
    /\ \A x \in DOMAIN cache : \A w1 \in Ways, w2 \in Ways :
          (w1 # w2 /\ cache[x][w1].valid /\ cache[x][w2].valid)
              => cache[x][w1].tag # cache[x][w2].tag
    /\ \A i \in HotPages, j \in HotPages :
          (i # j /\ page_table[i].valid /\ page_table[j].valid)
              => page_table[i].tag # page_table[j].tag

\* a set with two valid ways, after three requests
TwoValidWays ==
    /\ mc_num_requests = MaxRequests
    /\ \E x \in DOMAIN cache : \E w1 \in Ways, w2 \in Ways :
          w1 # w2 /\ cache[x][w1].valid /\ cache[x][w2].valid

\* C2: for every scheme and every request, the cycle MemoryController::access
\* returns is at least the req.cycle the caller passed in (the devices answer
\* no earlier than they are asked).
ResponseNotEarlier ==
    (status = "running" /\ last_req # NoReq) => resp >= last_req.cycle

\* a miss answered by external DRAM later than it was asked
LateResponse ==
    /\ status = "running"
    /\ last_req.type \in {"GETS", "GETX", "PUTX"}
    /\ last_req.cycle > 0
    /\ resp > last_req.cycle
    /\ \E i \in DOMAIN calls : calls[i].dev = "ext"

\* C3: a PUTS returns exactly req.cycle with *req.state = I, calls no DRAM
\* device and leaves all controller and scheme state unchanged.
PutsChangesNothing ==
    [][(last_req' # NoReq /\ last_req'.type = "PUTS" /\ last_req = NoReq)
          => /\ resp' = last_req'.cycle
             /\ req_state' = "I"
             /\ calls' = <<>>
             /\ periods' = 0
             /\ UNCHANGED <<mcVars, schVars>>]_vars

\* a PUTS answered by a controller that has served requests and holds lines
PutsAfterTraffic ==
    /\ last_req.type = "PUTS"
    /\ last_req.cycle > 0
    /\ resp = last_req.cycle
    /\ mc_num_requests > 0
    /\ cache # <<>>

CountingSchemes ==
    {"AlloyCache", "UnisonCache", "BansheeCache", "NDC", "CHAMO",
     "IdealBalanced", "IdealFully", "IdealHotness"}

\* C4: in every scheme that counts all kinds, loadHit + loadMiss + storeHit +
\* storeMiss equals the number of non-PUTS requests the controller processed.
CountersAddUp ==
    (scheme \in CountingSchemes /\ status = "running")
        => numLoadHit + numLoadMiss + numStoreHit + numStoreMiss = mc_num_requests

\* three requests counted under three different counters
ThreeKindsCounted ==
    /\ scheme \in CountingSchemes
    /\ status = "running"
    /\ mc_num_requests = MaxRequests
    /\ Cardinality({c \in {<<"lh", numLoadHit>>, <<"lm", numLoadMiss>>,
                           <<"sh", numStoreHit>>, <<"sm", numStoreMiss>>} : c[2] > 0}) >= 3

\* C5: in Johnny and Random page-map modes no two distinct virtual pages are
\* ever mapped to the same physical page.
PageMapInjective ==
    \A v1 \in DOMAIN mc_tlb, v2 \in DOMAIN mc_tlb :
        v1 # v2 => mc_tlb[v1] # mc_tlb[v2]

\* C6: a line (page) that was stored to while resident is written back to
\* external DRAM by the very call that evicts it, in every scheme.
DirtyWrittenBack ==
    status = "running" =>
        \A t \in evicted : \E i \in DOMAIN calls :
            /\ calls[i].dev = "ext"
            /\ calls[i].type = "PUTX"
            /\ calls[i].wb = t

\* C7: with bw_balance = false, ds_index is 0 after any number of accesses,
\* in every scheme, also in those that call period() from inside access().
DsIndexStaysZero == ~bw_balance => ds_index = 0

\* period() has run inside an access although bw_balance is off
PeriodWithoutBalance ==
    /\ ~bw_balance
    /\ periods > 0
    /\ mc_num_requests > StepLength
    /\ mc_bw_per_step > 0

\* C8: after every period() call 0 <= ds_index <= num_sets.
DsIndexInRange == ds_index >= 0 /\ ds_index <= num_sets

\* C9: with bw_balance on, period() runs exactly once in a non-PUTS access
\* whose request count is a multiple of step_length and not at all in any
\* other access, in every scheme.
PeriodOnBoundaryOnly ==
    (bw_balance /\ status = "running" /\ last_req # NoReq)
        => periods = IF last_req.type # "PUTS" /\ mc_num_requests % step_length = 0
                     THEN 1 ELSE 0

\* C10: around every insert() and clearTagBuffer(), entry_occupied is the
\* number of entries whose remap flag is set, hence at most num_sets x num_ways.
OccupiedIsRemapCount ==
    /\ entry_occupied = RemapCount(tag_buffer)
    /\ entry_occupied <= TBNumSets * TBNumWays

\* remap entries and plain entries side by side
MixedTagBuffer ==
    /\ entry_occupied >= 2
    /\ \E i \in TBSets, j \in TBWays :
          ~tag_buffer[i][j].remap /\ tag_buffer[i][j].tag # 0

\* C11: CHAMO, after every access, for every column c,
\* self_contain_rank[c] + overflow_rank[c] <= the map limit recomputed in
\* that access.
RankWithinMapLimit ==
    (scheme = "CHAMO" /\ status = "running") =>
        \A c \in ChamoCols :
            chamo.dram_self_contain_rank_[c] + chamo.dram_overflow_rank_[c]
                <= chamo.nr_map_limit_

\* the way reached from w by following next k times
RECURSIVE RingWalk(_, _)
RingWalk(w, k) == IF k = 0 THEN w ELSE RingWalk(lru_array[w].next, k - 1)

LockedSectionSerial ==
    /\ Cardinality(InSection) <= 1
    /\ ~futex_lockable(lock) => InSection # {}
    /\ \A t \in Threads :
          thr[t].pc = "body" =>
              /\ thr[t].snap.n = mc_num_requests
              /\ thr[t].snap.s = Cur

\* C14: two runs with the same configuration and the same requests agree on
\* every response cycle, on the tag array and on the counters.  Both runs
\* are in the same state before each request, so they agree for ever if and
\* only if, in every reachable state, the outcome of the next request does
\* not depend on what the generators yield.
SameRunSameResult ==
    (status = "running" /\ last_req = NoReq) =>
        \A req \in DetReqs :
            \A p1 \in RandomChoices, p2 \in RandomChoices, r1 \in DetRands, r2 \in DetRands :
                DetOutcome(req, p1, r1) = DetOutcome(req, p2, r2)

\* C15: when a virtual page that was never seen is accessed in Johnny or
\* Random mode and every physical page is in use, the call ends in a fatal
\* error: no page is handed out a second time and the search does not go on.
ExhaustedMapIsFatal ==
    [][(/\ page_map_scheme \in {"Johnny", "Random"}
        /\ last_req = NoReq
        /\ last_req' # NoReq
        /\ (last_req'.lineAddr \div PageLines) \notin DOMAIN mc_tlb
        /\ exist_pgnum = 0..(Pow2(ext_line_bits) - 1))
       => status' = "aborted"]_vars

\* C16: in Johnny mode the i-th distinct virtual page seen (from 0) gets
\* physical page i, a page already seen keeps its physical page, and the
\* used physical pages are as many as the distinct virtual pages seen.
JohnnyInOrder ==
    [][page_map_scheme = "Johnny" =>
          /\ \A v \in DOMAIN mc_tlb' :
                mc_tlb'[v] = IF v \in DOMAIN mc_tlb THEN mc_tlb[v]
                             ELSE Cardinality(DOMAIN mc_tlb)
          /\ Cardinality(exist_pgnum') = Cardinality(DOMAIN mc_tlb')]_vars

\* C17: every access() call returns after finitely many steps, in every
\* page-map mode: no call is ever left inside the mapper in a loop that no
\* draw of the generator can leave (every page number it can draw is used).
AccessReturns ==
    ~(/\ status = "hung"
      /\ \A pgnum \in 0..(Pow2(ext_line_bits) - 1) : pgnum \in exist_pgnum)

\* C18: the constructor succeeds for each of the eleven scheme names of the
\* specification and ends in a fatal configuration error for any other name.
ElevenSchemeNames ==
    (status # "unbuilt" /\ mc_num_requests = 0) =>
        (status = "running" <=> scheme \in SpecSchemeNames)

\* C19: for the line address a of an NDC request, getSetNum and getTag of
\* phyAddr2cacheAddr(a) are the index and the tag bits that the index mask
\* and its complement select from a, the set is below num_sets, and no
\* resident line that differs from a in an index-mask bit is in a's set.
CodecRoundTrip ==
    (scheme = "NDC" /\ status = "running" /\ last_req # NoReq) =>
        LET a == last_req.lineAddr
            ca == phyAddr2cacheAddr(a)
        IN /\ getSetNum(ca) = ExtractBits(a, index_mask, 0, 0, num_index_bits)
           /\ getTag(ca) % Pow2(num_cache_tag_bits)
                  = ExtractBits(a, cache_tag_mask, 0, 0, num_cache_tag_bits)
           /\ getSetNum(ca) < num_sets
           /\ \A w \in 0..(num_ways - 1) :
                 LET b == GetWay(cache, getSetNum(ca), w)
                 IN b.valid => \A i \in index_mask : Bit(a, i) = Bit(b.tag, i)

UnisonTlbMatchesCache ==
    scheme = "UnisonCache" =>
        /\ status # "aborted"
        /\ \A t \in DOMAIN tlb : \A w \in 0..(num_ways - 1) :
              tlb[t].way = w <=>
                  (GetWay(cache, t % num_sets, w).valid
                   /\ GetWay(cache, t % num_sets, w).tag = t)

AlloyBypassBelowDsIndex ==
    [][(/\ scheme = "AlloyCache"
        /\ last_req = NoReq
        /\ last_req' # NoReq
        /\ last_req'.type # "PUTS"
        /\ status' = "running"
        /\ last_req'.lineAddr % num_sets < ds_index)
       => /\ calls' # <<>>
          /\ calls'[1] = [dev |-> "ext", type |-> last_req'.type, mode |-> 0,
                          bursts |-> 4, wb |-> NoTag]
          /\ numLoadHit' = numLoadHit
          /\ numStoreHit' = numStoreHit
          /\ numLoadMiss' + numStoreMiss' = numLoadMiss + numStoreMiss + 1
          /\ periods' = 0 => (Len(calls') = 1 /\ cache' = cache)]_vars

\* an Alloy access has bypassed the cache for a set below ds_index
AlloyBypassed ==
    /\ scheme = "AlloyCache"
    /\ status = "running"
    /\ last_req # NoReq
    /\ last_req.lineAddr % num_sets < ds_index
    /\ periods = 0
    /\ GetWay(cache, last_req.lineAddr % num_sets, 0).tag # last_req.lineAddr

\* the step is an Alloy access that returns, to a line whose set is not below
\* ds_index
AlloyCachedAccess ==
    /\ scheme = "AlloyCache"
    /\ last_req = NoReq
    /\ last_req' # NoReq
    /\ last_req'.type # "PUTS"
    /\ status' = "running"
    /\ last_req'.lineAddr % num_sets >= ds_index

AlloyHitStep == numLoadHit' + numStoreHit' = numLoadHit + numStoreHit + 1

\* a miss makes one placement (one tag-and-data write to MC-DRAM), and way 0
\* of the set then holds the line, unless the period() of the same call
\* flushes the set
AlloyMissPlaces ==
    LET a == last_req'.lineAddr
        set == a % num_sets
        w0 == GetWay(cache', set, 0)
    IN /\ Cardinality({i \in DOMAIN calls' :
                          /\ calls'[i].dev = "mc"
                          /\ calls'[i].type = "PUTX"
                          /\ calls'[i].mode = 2}) = 1
       /\ set >= ds_index' => (w0.valid /\ w0.tag = a)

FlushedSetsInvalid ==
    [][(status' = "running" /\ ds_index' > ds_index)
          => \A set \in ds_index..(Min(ds_index', num_sets) - 1) :
                \A way \in 0..(num_ways - 1) :
                    /\ ~GetWay(cache', set, way).valid
                    /\ ~GetWay(cache', set, way).dirty]_vars

\* a rebalance has just written a dirty way of set 0 back and given the set up
DirtySetFlushed ==
    /\ status = "running"
    /\ periods = 1
    /\ ds_index > 0
    /\ calls # <<>>
    /\ calls[Len(calls)].dev = "ext"
    /\ calls[Len(calls)].mode = 2
    /\ calls[Len(calls)].wb # NoTag
    /\ \A way \in 0..(num_ways - 1) : ~GetWay(cache, 0, way).valid


\* C26: a handler's period() moves ds_index up only if the halved counters
\* give mc_bw / (mc_bw + ext_bw) >= 0.8 + 0.02, moves it down only if they
\* give a ratio <= 0.8 - 0.02, and leaves it alone when the ratio is strictly
\* inside the deadband, when both counters are zero, when bw_balance is off
\* and when no period() ran.
BwCompared == bw_at_period # NoBw /\ bw_balance /\ bw_at_period.mc + bw_at_period.ext > 0

BwAboveDeadband ==
    100 * bw_at_period.mc >= (TargetPct + DeadbandPct) * (bw_at_period.mc + bw_at_period.ext)

BwBelowDeadband ==
    100 * bw_at_period.mc <= (TargetPct - DeadbandPct) * (bw_at_period.mc + bw_at_period.ext)

DsIndexFollowsRatio ==
    [][status' = "running"
          => /\ ds_index' > ds_index => (BwCompared /\ BwAboveDeadband)'
             /\ ds_index' < ds_index => (BwCompared /\ BwBelowDeadband)'
             /\ (~BwCompared \/ (~BwAboveDeadband /\ ~BwBelowDeadband))'
                    => ds_index' = ds_index]_vars

\* a period() has just compared a ratio above the deadband and given sets up
DsIndexRaised ==
    /\ status = "running"
    /\ BwCompared
    /\ BwAboveDeadband
    /\ ds_index > 0

\* a period() has just compared a ratio below the deadband with sets given up
DsIndexLowered ==
    /\ status = "running"
    /\ BwCompared
    /\ BwBelowDeadband
    /\ bw_at_period.mc > 0
    /\ ds_index > 0

\* a period() has just compared a ratio strictly inside the deadband
DsIndexKept ==
    /\ status = "running"
    /\ BwCompared
    /\ ~BwAboveDeadband
    /\ ~BwBelowDeadband


\* C27: when an eviction finds canInsert(new_tag, evicted_tag) false and
\* clears the tag buffer, canInsert(new_tag, evicted_tag) is true on the
\* cleared buffer, neither insert fails an assertion, and right after them
\* both tags are in the tag buffer as remap entries, for tags of one tag
\* buffer set and of two.
EvictionAfterClearInserts ==
    [][(tb_evict' # NoEvict /\ tb_evict'.cleared)
          => /\ status' = "running"
             /\ canInsert2(clearTagBuffer(Cur), tb_evict'.tag, tb_evict'.replaced)
             /\ IsRemap(tag_buffer', tb_evict'.tag)
             /\ IsRemap(tag_buffer', tb_evict'.replaced)
             /\ entry_occupied' = 2]_vars

\* an eviction has cleared a tag buffer for two tags of the same set
ClearedForSameSet ==
    /\ status = "running"
    /\ tb_evict.cleared
    /\ tb_evict.tag % TBNumSets = tb_evict.replaced % TBNumSets
    /\ IsRemap(tag_buffer, tb_evict.tag)

\* an eviction has cleared a tag buffer for two tags of different sets
ClearedForTwoSets ==
    /\ status = "running"
    /\ tb_evict.cleared
    /\ tb_evict.tag % TBNumSets # tb_evict.replaced % TBNumSets
    /\ IsRemap(tag_buffer, tb_evict.tag)


\* C28: whenever a Banshee access has returned, the tag buffer occupancy is
\* at most 0.7.
OccupancyBoundedOnReturn ==
    (scheme = "BansheeCache" /\ status = "running" /\ last_req # NoReq)
        => ~OccupancyHigh(Cur)


\* C29: the way an NDC miss fills was invalid if the set had an invalid way,
\* else valid and clean if the set had a clean way, and was dirty only if
\* every way of the set was valid and dirty.
NdcMissStep ==
    /\ scheme = "NDC"
    /\ status' = "running"
    /\ last_req = NoReq
    /\ last_req' # NoReq
    /\ last_req'.type # "PUTS"
    /\ numLoadMiss' + numStoreMiss' = numLoadMiss + numStoreMiss + 1

NdcVictimByPreference ==
    [][NdcMissStep
          => LET set_num == getSetNum(phyAddr2cacheAddr(last_req'.lineAddr))
                 ws == 0..(num_ways - 1)
                 Old(w) == GetWay(cache, set_num, w)
                 filled == {w \in ws : GetWay(cache', set_num, w) # Old(w)}
             IN /\ Cardinality(filled) = 1
                /\ \A w \in filled :
                      /\ GetWay(cache', set_num, w).valid
                      /\ GetWay(cache', set_num, w).tag = last_req'.lineAddr
                      /\ (\E x \in ws : ~Old(x).valid) => ~Old(w).valid
                      /\ (\E x \in ws : Old(x).valid /\ ~Old(x).dirty)
                            => (~Old(w).valid \/ ~Old(w).dirty)
                      /\ (Old(w).valid /\ Old(w).dirty)
                            => \A x \in ws : Old(x).valid /\ Old(x).dirty]_vars

\* an NDC miss on a full set has replaced the clean way and spared a dirty one
NdcCleanWayReplaced ==
    /\ scheme = "NDC"
    /\ status = "running"
    /\ last_req # NoReq
    /\ last_req.type # "PUTS"
    /\ numLoadMiss + numStoreMiss = NdcWays + 1
    /\ \A i \in DOMAIN calls : calls[i].wb = NoTag
    /\ LET set_num == getSetNum(phyAddr2cacheAddr(last_req.lineAddr))
       IN \E w \in 0..(num_ways - 1) :
             /\ GetWay(cache, set_num, w).valid
             /\ GetWay(cache, set_num, w).dirty
             /\ GetWay(cache, set_num, w).tag # last_req.lineAddr


\* C30: NDC writes a dirty victim back inline only when the victim buffer of
\* VictimBufferSize slots has no slot to reserve.  The buffer holds dirty
\* victims only, and no way is evicted before the num_ways fills of a set,
\* so at the time of an inline write-back at least VictimBufferSize of the
\* earlier misses, the num_ways first ones not counted, were dirty evictions.
VictimBufferSize == 1

NdcInlineWriteBack ==
    /\ scheme = "NDC"
    /\ status = "running"
    /\ \E i \in DOMAIN calls :
          calls[i].dev = "ext" /\ calls[i].mode = 2 /\ calls[i].wb # NoTag

NdcInlineOnlyWhenBufferFull ==
    NdcInlineWriteBack
        => numLoadMiss + numStoreMiss - 1 - num_ways >= VictimBufferSize


\* The (level, col) entry a CHAMO access indexes, as one line number, and the
\* hash index a base rank selects in a column.
ChamoEntryLine == LCG_hash(last_req.lineAddr % nr_cxl_cache_, nr_cxl_cache_)

ChamoIndexOf(base, col) ==
    LET over_next == chamo.dram_overflow_rank_[(col + 1) % nr_dram_cache_]
    IN IF base <= over_next THEN 1
       ELSE IF base - over_next <= chamo.dram_self_contain_rank_[col] THEN 0
       ELSE 2

\* C31: after a CHAMO access of entry (level, col), the hash index recorded
\* for the entry is the one its recorded base rank gives: 1 if base <=
\* overflow_rank[next], else 0 if base - overflow_rank[next] <=
\* self_contain_rank[col], else 2.
ChamoIndexByRecordedRank ==
    (scheme = "CHAMO" /\ status = "running" /\ last_req # NoReq /\ last_req.type # "PUTS")
        => LET level == ChamoEntryLine \div nr_dram_cache_
               col == ChamoEntryLine % nr_dram_cache_
           IN chamo.hash_idx_[level][col]
                  = ChamoIndexOf(chamo.dram_base_rank_[level][col], col)


\* C33: the CHAMO cuckoo counter equals the number of (level, col) entries
\* whose is_cuckoo flag is set, is never above the touched counter and never
\* below zero.
CuckooCountMatchesFlags ==
    scheme = "CHAMO"
        => /\ chamo.hash_metric_.nr_cuckoo_cnt_
                  = Cardinality({e \in ChamoLevels \X ChamoCols :
                                    chamo.is_cuckoo_hash_[e[1]][e[2]]})
           /\ chamo.hash_metric_.nr_cuckoo_cnt_ <= chamo.hash_metric_.nr_touched_cnt_
           /\ chamo.hash_metric_.nr_cuckoo_cnt_ >= 0

\* an entry that was cuckoo-mapped has fallen back to hash 2 while others stay mapped
CuckooEntryFellBack ==
    /\ scheme = "CHAMO"
    /\ status = "running"
    /\ chamo.hash_metric_.nr_cuckoo_cnt_ >= 2
    /\ chamo.hash_metric_.nr_cuckoo_cnt_ < chamo.hash_metric_.nr_touched_cnt_
    /\ \E e \in ChamoLevels \X ChamoCols :
          /\ chamo.access_bit_map_[e[1]][e[2]]
          /\ chamo.hash_idx_[e[1]][e[2]] = 2
          /\ ~chamo.is_cuckoo_hash_[e[1]][e[2]]


\* a step of IdealBalanced that counts a miss
BalancedMissStep ==
    /\ scheme = "IdealBalanced"
    /\ numLoadMiss' + numStoreMiss' = numLoadMiss + numStoreMiss + 1

\* C34: every IdealBalanced miss fills the way current_way designates and
\* leaves current_way = (current_way + 1) mod num_ways.
BalancedMissRoundRobin ==
    [][BalancedMissStep
          => /\ GetWay(cache', 0, current_way).valid
             /\ GetWay(cache', 0, current_way).tag = last_req'.lineAddr
             /\ current_way' = (current_way + 1) % num_ways]_vars


\* the lines IdealBalanced and IdealFully know: recorded in line_entries or
\* held by a valid way
IdealKnownLines ==
    DOMAIN line_entries
        \cup {GetWay(cache, 0, w).tag : w \in {x \in 0..(num_ways - 1) : GetWay(cache, 0, x).valid}}

\* C35: in IdealBalanced and IdealFully, line_entries[L] records way w exactly
\* when way w is valid and holds tag L (an evicted line is recorded as absent).
LineEntriesMatchWays ==
    scheme \in {"IdealBalanced", "IdealFully"}
        => \A L \in IdealKnownLines : \A w \in 0..(num_ways - 1) :
              (LineWay(Cur, L) = w)
                  <=> (GetWay(cache, 0, w).valid /\ GetWay(cache, 0, w).tag = L)


\* the lines of the valid ways met on k steps along next from way w
RECURSIVE RingLines(_, _, _, _)
RingLines(arr, c, w, k) ==
    IF k = 0 THEN <<>>
    ELSE (IF GetWay(c, 0, w).valid THEN <<GetWay(c, 0, w).tag>> ELSE <<>>)
             \o RingLines(arr, c, arr[w].next, k - 1)

\* the reference LRU list of n lines after an access to line L
LruTouch(order, L, n) ==
    LET moved == <<L>> \o SelectSeq(order, LAMBDA x : x # L)
    IN SubSeq(moved, 1, Min(Len(moved), n))

FullyAccessStep ==
    /\ scheme = "IdealFully"
    /\ mc_num_requests' = mc_num_requests + 1

\* C36: IdealFully is a reference LRU cache of num_ways lines.  With the
\* resident lines read along the ring from mru_way (empty at construction),
\* every access hits exactly when its line is in that list, leaves the list
\* as the reference LRU update does (the line first, the others in their
\* old order, cut to num_ways), and a miss on a full cache drops the last line.
FullyIsReferenceLru ==
    [][FullyAccessStep
          => LET L == last_req'.lineAddr
                 before == RingLines(lru_array, cache, mru_way, num_ways)
                 after == RingLines(lru_array', cache', mru_way', num_ways)
                 hit == numLoadHit' + numStoreHit' = numLoadHit + numStoreHit + 1
                 Lines(q) == {q[i] : i \in DOMAIN q}
             IN /\ hit <=> L \in Lines(before)
                /\ after = LruTouch(before, L, num_ways)
                /\ (~hit /\ Len(before) = num_ways)
                       => Lines(before) \ Lines(after) = {before[num_ways]}]_vars

\* a miss has evicted a line after hits had reordered the ring
LruLineEvictedAfterHits ==
    /\ scheme = "IdealFully"
    /\ last_req # NoReq
    /\ numLoadHit >= 1
    /\ numLoadMiss + numStoreMiss >= num_ways + 1
    /\ \E w \in Ways : lru_array[w].next # (w + 1) % num_ways


\* a step of IdealHotness that counts a miss while every page is valid
HotEvictStep ==
    /\ scheme = "IdealHotness"
    /\ numLoadMiss' + numStoreMiss' = numLoadMiss + numStoreMiss + 1
    /\ \A i \in HotPages : page_table[i].valid

\* C37: an IdealHotness miss that evicts a page evicts one whose frequency is
\* the minimum over the resident pages, and leaves the page map with the new
\* page in the victim's slot and without the evicted page.
HotVictimIsColdest ==
    [][HotEvictStep
          => LET new == last_req'.lineAddr \div HotLinesPerPage
             IN /\ new \in DOMAIN page_location'
                /\ \E v \in HotPages :
                      /\ DOMAIN page_location \ DOMAIN page_location' = {page_table[v].tag}
                      /\ \A i \in HotPages : page_table[v].frequency <= page_table[i].frequency
                      /\ page_location'[new] = v
                      /\ page_table'[v].tag = new]_vars

\* a miss with every page valid has replaced a page other than the first:
\* the first page was the hotter one
HotColderPageEvicted ==
    /\ scheme = "IdealHotness"
    /\ last_req # NoReq
    /\ calls # <<>>
    /\ numLoadMiss + numStoreMiss >= HotNumPages + 1
    /\ page_location[last_req.lineAddr \div HotLinesPerPage] # 0


\* C32: after _UpdateMapLimit, nr_map_limit_ is ceil((cuckoo count * 100 /
\* target load) / nr_dram_cache) clamped into [1, dram_ratio], and the call
\* returns for every such value and every dram_ratio >= 1.
MapLimitClampedAndAccepted ==
    (map_limit # NoHash /\ map_limit.calls > 0)
        => LET scaled == (map_limit.nr_cuckoo_cnt_ * 100) \div LoadRatio
               ceil == (scaled + map_limit.nr_dram_cache_ - 1) \div map_limit.nr_dram_cache_
           IN /\ map_limit.nr_map_limit_ = Max(1, Min(map_limit.dram_ratio_, ceil))
              /\ ~map_limit.abort


RECURSIVE IsPow2(_)
IsPow2(n) == n = 1 \/ (n > 1 /\ n % 2 = 0 /\ IsPow2(n \div 2))

\* C38: for a power-of-two nr_bucket_, LCG_rev_hash undoes LCG_hash on every
\* key below nr_bucket_ and both hash indexes, LCG_hash is a bijection of
\* [0, nr_bucket_), and the shuffle of CHAMOScheme::Index (LCG_hash with index
\* 0, split into level and column) sends distinct addresses to distinct entries.
LcgRevHashInverts ==
    (lcg # NoHash /\ lcg.pc = "reversed" /\ IsPow2(lcg.nr_bucket_))
        => LET m == lcg.nr_bucket_
               keys == 0..(m - 1)
               Entry(k, cols) == <<LCG_hash(k, m) \div cols, LCG_hash(k, m) % cols>>
           IN /\ lcg.rev_key = lcg.key
              /\ lcg.bucket_idx \in keys
              /\ {LCGHash_LCG_hash(m, k, lcg.hash_index) : k \in keys} = keys
              /\ \A k \in keys : LCG_hash(k, m) = LCGHash_LCG_hash(m, k, 0)
              /\ \A cols \in {d \in 1..m : m % d = 0} :
                    Cardinality({Entry(k, cols) : k \in keys}) = m

\* a key of a 32-bucket hash went to another bucket and came back
LcgKeyRestored ==
    /\ lcg # NoHash
    /\ lcg.pc = "reversed"
    /\ lcg.nr_bucket_ = 32
    /\ lcg.hash_index = 1
    /\ lcg.bucket_idx # lcg.key
    /\ lcg.rev_key = lcg.key


\* the bucket the record of an address names
CuckooSlotOf(c, phy_cache_addr) ==
    Hash(c, phy_cache_addr, c.index_metadata_[phy_cache_addr].map_idx) * c.bucket_assoc_
        + c.index_metadata_[phy_cache_addr].way_idx

\* the cuckoo-mapped addresses whose record names bucket b of hash assoc h
CuckooRecordsOf(c, h, b) ==
    {a \in DOMAIN c.index_metadata_ :
        /\ c.index_metadata_[a].is_cuckoo
        /\ c.index_metadata_[a].hash_assoc_idx = h
        /\ CuckooSlotOf(c, a) = b}

\* C39: after any sequence of GetTargetSetIdx calls, every address recorded
\* as cuckoo-mapped is found at the bucket slot its record names (the slot
\* is valid, has the record's map index and the address as footprint), and
\* every valid bucket slot is named by exactly one such record.
CuckooRecordsMatchSlots ==
    cuckoo_hash.obj = "CuckooHash" =>
        /\ \A a \in DOMAIN cuckoo_hash.index_metadata_ :
              cuckoo_hash.index_metadata_[a].is_cuckoo =>
                  /\ cuckoo_hash.index_metadata_[a].hash_assoc_idx \in 0..(cuckoo_hash.hash_assoc_ - 1)
                  /\ CuckooSlotOf(cuckoo_hash, a) \in 0..(cuckoo_hash.nr_bucket_ - 1)
                  /\ LET slot == cuckoo_hash.buckets_[cuckoo_hash.index_metadata_[a].hash_assoc_idx]
                                                     [CuckooSlotOf(cuckoo_hash, a)]
                     IN /\ slot.valid
                        /\ slot.map_idx = cuckoo_hash.index_metadata_[a].map_idx
                        /\ slot.footprint = a
        /\ \A h \in 0..(cuckoo_hash.hash_assoc_ - 1), b \in 0..(cuckoo_hash.nr_bucket_ - 1) :
              cuckoo_hash.buckets_[h][b].valid =>
                  Cardinality(CuckooRecordsOf(cuckoo_hash, h, b)) = 1

\* an insert has kicked out a path of more than one entry, and the call
\* returned
CuckooPathKickedOut ==
    /\ cuckoo_hash.obj = "CuckooHash"
    /\ cuckoo_hash.failed = ""
    /\ cuckoo_hash.cuckoo_metric_.nr_kick_out_ >= 1
    /\ cuckoo_hash.cuckoo_metric_.cum_cuckoo_path_len_ > cuckoo_hash.cuckoo_metric_.nr_kick_out_

\* C40: on every entry to Insert nr_total_entry_ <= nr_bucket_ * hash_assoc_,
\* whatever the number of distinct addresses GetTargetSetIdx was called with:
\* the assert at the head of Insert never fails.
InsertEntryWithinCapacity ==
    cuckoo_hash.obj = "CuckooHash" => cuckoo_hash.failed # "Insert: nr_total_entry_"

====
